---- MODULE Spec2Model ----
(***************************************************************************)
(* The reactive engine of zust (lib/reactivity.ts): signals, effects,      *)
(* memos, the deep store and batch(), as a call-stack machine.  Every      *)
(* synchronous call of the engine (set's notification loop, execute, the   *)
(* drain of batch, the parent loop of the store's set trap) is a frame of  *)
(* `stack`; one step runs the next statement of the top frame.  User code  *)
(* is of two kinds: the bodies of the computations (small programs, fixed  *)
(* per scenario) and the top-level script (the driver actions).            *)
(***************************************************************************)
EXTENDS Integers, Sequences, FiniteSets, TLC

MaxOps == 5     \* top-level script operations after the setup
MaxVal == 1     \* the script writes the primitives 0..MaxVal
NObj == 6       \* object references available to the store
MaxLen == 3     \* the store's array grows to this length
StoreOps == 4   \* script operations on the store under all of its setters

VARIABLES
    scn,             \* the scenario (which computations the script creates)
    created,         \* how many of the scenario's computations exist
    stack,           \* the call stack of the engine, innermost frame last
    context,         \* reactivity.ts:10, the stack of running subscribers
    isBatching,      \* reactivity.ts:13
    batchedEffects,  \* reactivity.ts:14, a Set in insertion order
    data,            \* per signal: createSignal's `data`
    subscriptions,   \* per signal: createSignal's `subscriptions`, in insertion order
    dependencies,    \* per computation: Subscriber.dependencies
    signals,         \* createStore's `signals` map: its keys in insertion order
    heap,            \* the objects of the store: reference -> fields
    opn,             \* script operations done, of the MaxOps a script can make
    op,              \* the current (or last) top-level operation of the script
    last,            \* the last operation of the script, top-level or in a batch
    runs,            \* per computation: runs of its body since that operation began
    calls,           \* calls of the memo's function since that operation began
    seen,            \* per computation and signal: the value its last run read
    seen0,           \* `seen` when the top-level operation began
    data0,           \* `data` when the top-level operation began
    signals0,        \* `signals` when the top-level operation began
    heap0,           \* `heap` when the top-level operation began
    threw,           \* the top-level operation ended with an error thrown to the script
    lp,              \* the loop of a top-level write: the subscribers when set was
                     \* called (at) and the computations the loop invoked (did)
    uw,              \* per signal: writes by the script in this operation
    nested,          \* inner batch() calls that returned in this operation
    cw,              \* signals written by computations in this operation
    locals,          \* the variables of the script that the bodies of its
                     \* computations use: per computation, a counter of runs;
                     \* for a directive, its closure's variables and the
                     \* children of its parent element (dom)
    inst,            \* the engine (a call of initialize) whose context, isBatching
                     \* and batchedEffects the variables of these names hold
    other            \* context, isBatching and batchedEffects of the other engine

vars == <<scn, created, stack, context, isBatching, batchedEffects, data,
          subscriptions, dependencies, signals, heap, opn, op, last, runs, calls,
          seen, seen0, data0, signals0, heap0, threw, lp, uw, nested, cw, inst, other,
          locals>>

engine == <<context, isBatching, batchedEffects, data, subscriptions,
            dependencies, signals, heap>>

-----------------------------------------------------------------------------
(* Values *)

Prim(n) == [t |-> "prim", v |-> n]
Obj(r) == [t |-> "obj", v |-> r]
Undef == [t |-> "undef", v |-> 0]
Fn == [t |-> "fn", v |-> 0]
NoVal == [t |-> "none", v |-> 0]

Truthy(x) == x.t \in {"obj", "fn"} \/ (x.t = "prim" /\ x.v # 0)

(* Signals are named by a path: a plain signal by a one-element path, a    *)
(* signal of the store by the store's path (the keys of 'a.b.c').          *)
A == <<"A">>
B == <<"B">>
C == <<"C">>
M == <<"M">>
PlainSigs == {A, B, C, M}

\* The keys of an array: its indices, "length", and "push" of its prototype.
Index(i) == ToString(i)
Indices == {Index(i) : i \in 0..(MaxLen - 1)}
Keys == {"count", "user", "name", "items", "length", "push", "root"} \cup Indices
Items == <<"items">>
StorePaths ==
    {<<"count">>, <<"user">>, <<"user", "name">>, Items,
     <<"name">>, <<"user", "count">>, <<"root">>}
        \cup {Items \o <<k>> : k \in {"length", "push"} \cup Indices}
\* The signals of a child component's store for the expression $parent.count:
\* its paths "$parent" and "$parent.count".
Parent == <<"$parent">>
ParentCount == <<"$parent", "count">>
ChildPaths == {Parent, ParentCount}
AllSigs == PlainSigs \cup StorePaths \cup ChildPaths

Comps == {1, 2}
NoComp == 0

\* The engines: const first = initialize(), second = initialize()
First == "X"
\* Mutant: the second call of initialize returns the first engine.
SecondSame == First
Second == "Y"
\* The engine whose createSignal made the signal, whose createEffect made the
\* computation: in the scenario of two engines b and the second computation
\* are of the second engine.
\* Mutant: a nested component gets an engine of its own.
Initialized == Second
\* The engine of a component nested in another:
\* parentContext ? { createSignal: parentContext.createSignal, ... } : initialize()
Inherited == First
\* In the scenario of a nested component the second computation is an effect
\* of a directive of the child, and the child's store is made by the child's
\* createStore.
SigEngine(sc, s) ==
    IF sc = "two" /\ s = B THEN Second
    ELSE IF sc = "child" /\ s \in ChildPaths THEN Inherited
    ELSE First
CompEngine(sc, c) ==
    IF sc = "two" /\ c = 2 THEN Second
    ELSE IF sc = "child" /\ c = 2 THEN Inherited
    ELSE First

Root == 1
Refs == 1..NObj

-----------------------------------------------------------------------------
(* The bodies of the computations: small programs over one accumulator.    *)
(*   read s   acc := s()              add s    acc := acc + s()            *)
(*   write s  set_s(acc)              jz k     skip k-1 statements unless  *)
(*   ret      return                           acc is truthy               *)
(*   fn       the memo's function is entered (counted in `calls`)          *)
(*   seed s   createSignal(acc), the memo's signal                         *)
(*   sget p   acc := store.p1.p2...   (chained reads through the view)     *)
(*   throw    throw new Error()                                            *)
(*   keys p   acc := Object.keys(store.p1.p2...).length                    *)
(*   pget p   acc := $parent.p1...    (a child's read of its parent's store) *)
(*   incr     the body's counter of runs ++    inc   acc := acc + 1         *)
(*   stop     return if Stop(acc, counter)                                  *)
(*   if       acc ? showElement() : hideElement()   (the z-if directive)    *)
(*   for      the z-for directive renders the array acc, keyed by item      *)

Ins(o, s, k) == [o |-> o, s |-> s, k |-> k]

\* a() + b()
BodySum == <<Ins("read", A, 0), Ins("add", B, 0)>>
\* a()
BodyOnlyA == <<Ins("read", A, 0)>>
\* c() ? a() : b()
BodyCond == <<Ins("read", C, 0), Ins("jz", C, 3), Ins("read", A, 0),
              Ins("ret", C, 0), Ins("read", B, 0)>>
\* setB(a())
BodyCopy == <<Ins("read", A, 0), Ins("write", B, 0)>>
\* Object.keys(store).length, Object.keys(store.user).length
BodyRootKeys == <<Ins("keys", <<>>, 0)>>
BodyUserKeys == <<Ins("keys", <<"user">>, 0)>>
\* if (a()) throw new Error()
BodyThrow == <<Ins("read", A, 0), Ins("jz", A, 2), Ins("throw", A, 0)>>
\* b() ? a() : 0
BodyLate == <<Ins("read", B, 0), Ins("jz", B, 2), Ins("read", A, 0)>>
\* setA(b())
BodyCopyBack == <<Ins("read", B, 0), Ins("write", A, 0)>>
\* sum(): an effect over the memo
BodyReadM == <<Ins("read", M, 0)>>
\* store.user.name, store.user
BodyName == <<Ins("sget", <<"user", "name">>, 0)>>
BodyUser == <<Ins("sget", <<"user">>, 0)>>
\* store.items.length, store.items[1]
BodyLength == <<Ins("sget", <<"items", "length">>, 0)>>
BodyElem == <<Ins("sget", <<"items", Index(1)>>, 0)>>
\* Mutant: the bodies stop far later.
StopLate(v, n) == v > 40 \/ n > 30
\* if (a() > 5 || aRuns > 10) return
Stop(v, n) == v > 5 \/ n > 10
\* aRuns++; if (a() > 5 || aRuns > 10) return; setB(a() + 1)
BodyA == <<Ins("incr", A, 0), Ins("read", A, 0), Ins("stop", A, 0),
           Ins("read", A, 0), Ins("inc", A, 0), Ins("write", B, 0)>>
\* bRuns++; if (b() > 5 || bRuns > 10) return; setA(b() + 1)
BodyB == <<Ins("incr", B, 0), Ins("read", B, 0), Ins("stop", B, 0),
           Ins("read", B, 0), Ins("inc", B, 0), Ins("write", A, 0)>>
\* z-if="count": const shouldShow = evaluate(value), then show or hide
BodyIf == <<Ins("sget", <<"count">>, 0), Ins("if", <<"count">>, 0)>>
\* <template z-for="item in items" z-key="item">
BodyFor == <<Ins("sget", <<"items">>, 0), Ins("for", <<"items">>, 0)>>
\* z-text="count" in the parent, z-text="$parent.count" in the child
BodyCount == <<Ins("sget", <<"count">>, 0)>>
BodyParentCount == <<Ins("pget", <<"count">>, 0)>>
\* createMemo(() => a() + b()): the function, then what is done with its result
MemoFn == <<Ins("fn", M, 0)>> \o BodySum
\* Mutant: the signal is created without calling fn.
MemoSeedLazy == <<Ins("seed", M, 0)>>
MemoSeed == MemoFn \o <<Ins("seed", M, 0)>>
\* Mutant: the effect calls fn() and drops the result.
MemoBodyNoSet == MemoFn
MemoBody == MemoFn \o <<Ins("write", M, 0)>>

Effect(b) == [kind |-> "effect", body |-> b, seed |-> <<>>]
Memo(b, sd) == [kind |-> "memo", body |-> b, seed |-> sd]

Scenarios == {"sum", "cond", "chain", "memo", "store", "late"}

\* The computations the script creates, in the order it creates them.
Prog(sc) ==
    CASE sc = "sum" -> <<Effect(BodySum), Effect(BodyOnlyA)>>
      [] sc = "cond" -> <<Effect(BodyCond)>>
      [] sc = "chain" -> <<Effect(BodySum), Effect(BodyCopy)>>
      [] sc = "memo" -> <<Memo(MemoBody, MemoSeed), Effect(BodyReadM)>>
      [] sc = "store" -> <<Effect(BodyName), Effect(BodyUser)>>
      [] sc = "late" -> <<Effect(BodyCopy), Effect(BodyLate)>>
      [] sc = "keys" -> <<Effect(BodyRootKeys), Effect(BodyUserKeys)>>
      [] sc = "nav" -> <<Effect(BodyName), Effect(BodyUser)>>
      [] sc = "two" -> <<Effect(BodySum), Effect(BodyCopyBack)>>
      [] sc = "items" -> <<Effect(BodyLength), Effect(BodyElem)>>
      [] sc = "throw" -> <<Effect(BodyThrow), Effect(BodySum)>>
      [] sc = "child" -> <<Effect(BodyCount), Effect(BodyParentCount)>>
      [] sc = "cycle" -> <<Effect(BodyA), Effect(BodyB)>>
      [] sc = "if" -> <<Effect(BodyIf), Effect(BodyCount)>>
      [] sc = "for" -> <<Effect(BodyFor), Effect(BodyLength)>>

\* The plain signals the script writes.
Writable(sc) ==
    CASE sc = "cond" -> {A, B, C}
      [] sc = "store" -> {}
      [] OTHER -> {A, B}

\* The signals the script reads: the memo.
Readable(sc) == IF sc = "memo" THEN {M} ELSE IF sc = "throw" THEN {A} ELSE {}

\* The paths the script assigns through the view of the store.
Assignable(sc) ==
    IF sc = "store" THEN {<<"count">>, <<"user", "name">>}
    ELSE IF sc = "keys" THEN {<<"name">>, <<"user", "count">>}
    ELSE IF sc \in {"child", "if"} THEN {<<"count">>}
    ELSE {}

\* The paths the script reads through the view.
Gettable(sc) ==
    IF sc = "store" THEN {<<"count">>, <<"user">>, <<"user", "name">>}
    ELSE IF sc = "items" THEN {<<"items", "length">>}
    ELSE {}

\* The paths the script gives to setStore.
Settable(sc) ==
    IF sc = "store" THEN {<<"count">>, <<"user", "name">>}
    ELSE IF sc = "nav" THEN {<<"user">>, <<"user", "name">>}
    ELSE {}

-----------------------------------------------------------------------------
(* Sets in insertion order (the Set of JavaScript) *)

Has(q, e) == \E i \in 1..Len(q) : q[i] = e
SetAdd(q, e) == IF Has(q, e) THEN q ELSE Append(q, e)
SetDelete(q, e) == SelectSeq(q, LAMBDA x : x # e)
Members(q) == {q[i] : i \in 1..Len(q)}

-----------------------------------------------------------------------------
(* The call stack *)

\* A frame is a call of a function of the engine `e`.
Frame(k, c, pc, acc, lst) ==
    [k |-> k, c |-> c, pc |-> pc, acc |-> acc, lst |-> lst, e |-> inst]

Top == stack[Len(stack)]
Rest == SubSeq(stack, 1, Len(stack) - 1)
WithTop(f) == [stack EXCEPT ![Len(stack)] = f]

TopLevel == stack = <<>>
\* The script runs: at top level, or as the function of a batch() call.
InBatchFn == stack # <<>> /\ Top.k \in {"batch", "inner"} /\ Top.pc = 0
UserTurn == TopLevel \/ InBatchFn
SetupDone == created = Len(Prog(scn))

running == IF context = <<>> THEN NoComp ELSE context[Len(context)]
\* const running = context[context.length - 1], in the closure of engine e
runningIn(e) ==
    IF e = inst THEN running
    ELSE IF other.context = <<>> THEN NoComp
    ELSE other.context[Len(other.context)]

Zero == [c \in Comps |-> 0]
NoWrites == [s \in AllSigs |-> 0]
\* The history of a top-level operation starts over when the script is at top level.
RunsBase == IF TopLevel THEN Zero ELSE runs
CallsBase == IF TopLevel THEN 0 ELSE calls
UwBase == IF TopLevel THEN NoWrites ELSE uw
CwBase == IF TopLevel THEN {} ELSE cw

Op(k, s, v, c) == [kind |-> k, s |-> s, v |-> v, c |-> c]

Begin(o) ==
    /\ last' = o
    /\ op' = IF TopLevel THEN o ELSE op
    /\ seen0' = IF TopLevel THEN seen ELSE seen0
    /\ data0' = IF TopLevel THEN data ELSE data0
    /\ signals0' = IF TopLevel THEN signals ELSE signals0
    /\ heap0' = IF TopLevel THEN heap ELSE heap0
    /\ threw' = IF TopLevel THEN FALSE ELSE threw
    /\ lp' = IF TopLevel
             THEN [at |-> IF o.kind = "write" THEN subscriptions[o.s] ELSE <<>>, did |-> <<>>]
             ELSE lp
    /\ nested' = IF TopLevel THEN 0 ELSE nested

-----------------------------------------------------------------------------
(* The store's raw object *)

RECURSIVE Walk(_, _)
Walk(cur, path) ==
    IF path = <<>> THEN cur
    ELSE IF cur.t = "obj" THEN Walk(heap[cur.v][Head(path)], Tail(path))
    ELSE Undef

getNestedValue(path) == Walk(Obj(Root), path)

Prefix(path, i) == SubSeq(path, 1, i)

\* Mutant: the get trap returns the value held by the path's signal.
trapCached(obj, path) ==
    IF Has(signals, path) THEN data[path] ELSE heap[obj][path[Len(path)]]
\* The get trap of the view of object obj, for the last key of path:
\* const value = obj[prop]
trapValue(obj, path) == heap[obj][path[Len(path)]]

\* store.p1.p2...: each get trap returns what the raw object holds, as a view
\* of it when it is an object; a property of a primitive is undefined.
RECURSIVE viewWalk(_, _, _)
viewWalk(cur, path, i) ==
    IF i = Len(path) THEN cur
    ELSE IF cur.t = "obj" THEN viewWalk(trapValue(cur.v, Prefix(path, i + 1)), path, i + 1)
    ELSE Undef
viewRead(path) == viewWalk(Obj(Root), path, 0)

\* Mutant: only the last get trap of a chained read subscribes.
TrackedLast(path) == {Len(path)}
\* The prefixes of a chained read store.p1.p2... that go through the view:
\* the view wraps objects only, so the chain is tracked up to the first
\* value that is not an object.
Tracked(path) ==
    {i \in 1..Len(path) : \A j \in 1..(i - 1) : getNestedValue(Prefix(path, j)).t = "obj"}

RECURSIVE Materialized(_, _, _)
Materialized(sigs, path, i) ==
    IF i > Len(path) THEN sigs
    ELSE Materialized(IF i \in Tracked(path) THEN SetAdd(sigs, Prefix(path, i)) ELSE sigs,
                      path, i + 1)

RefsOf(f) == {f[x].v : x \in {y \in DOMAIN f : f[y].t = "obj"}}
UsedRefs ==
    {Root} \cup RefsOf(data) \cup RefsOf(data0)
           \cup UNION {RefsOf(heap[r]) : r \in Refs}
           \cup UNION {RefsOf(seen[c]) \cup RefsOf(seen0[c]) : c \in Comps}
           \cup {stack[i].acc.v : i \in {j \in 1..Len(stack) : stack[j].acc.t = "obj"}}
\* A new object: a reference nothing holds.
Fresh == CHOOSE r \in Refs \ UsedRefs : \A q \in Refs \ UsedRefs : r <= q

-----------------------------------------------------------------------------
(* Signals and computations (createSignal, subscribe, cleanup, createEffect) *)

\* Mutant: set returns early when the value is the one already stored.
SnapshotIfChanged(s, v) == IF v = data[s] THEN <<>> ELSE subscriptions[s]
\* set: the subscribers a write of v to s notifies, a copy of the set taken
\* when set is called; the value written is not compared with the old one.
Snapshot(s, v) == subscriptions[s]

\* Mutant: every subscriber is queued, batch or not.
DeferredAlways == TRUE
\* Mutant: every subscriber is executed at once, batch or not.
DeferredNever == FALSE
\* set: inside a batch the subscriber is queued, not executed.
Deferred == isBatching

\* Mutant: the queue keeps duplicates.
enqueueTwice(e) == Append(batchedEffects, e)
\* batchedEffects.add(subscription.execute)
enqueue(e) == SetAdd(batchedEffects, e)

\* get, for the signals S read in one step: subscribe(running, subscriptions)
\* when a computation is running.
subscribe(S) ==
    [s \in AllSigs |->
        IF s \in S /\ running # NoComp THEN SetAdd(subscriptions[s], running)
        ELSE subscriptions[s]]
\* Mutant: subscribe leaves the computation's dependencies as they are.
RegisteredNever(S) == dependencies
Registered(S) ==
    [c \in Comps |-> IF c = running THEN dependencies[c] \cup S ELSE dependencies[c]]
Observed(S, val) ==
    [c \in Comps |->
        IF c = running THEN [s \in AllSigs |-> IF s \in S THEN val[s] ELSE seen[c][s]]
        ELSE seen[c]]

\* Mutant: the computation stays subscribed where it was.
cleanupNone(c) == subscriptions
\* Mutant: the computation stays subscribed to the signal a.
cleanupButA(c) ==
    [s \in AllSigs |->
        IF s \in dependencies[c] /\ s # A THEN SetDelete(subscriptions[s], c)
        ELSE subscriptions[s]]
\* cleanup(running): the subscriber sets once the computation has left them.
cleanup(c) ==
    [s \in AllSigs |->
        IF s \in dependencies[c] THEN SetDelete(subscriptions[s], c)
        ELSE subscriptions[s]]

\* execute, up to the call of the callback: cleanup(running), context.push(running).
\* `base` is the caller's stack and `rb` its count of runs.
execute(c, base, rb) ==
    /\ subscriptions' = cleanup(c)
    /\ dependencies' = [dependencies EXCEPT ![c] = {}]
    /\ context' = Append(context, c)
    /\ stack' = Append(base, Frame("exec", c, 1, Undef, <<>>))
    /\ runs' = [rb EXCEPT ![c] = @ + 1]
    /\ seen' = [seen EXCEPT ![c] = [s \in AllSigs |-> NoVal]]

-----------------------------------------------------------------------------
(* The initial state: the signals and the store exist, no computation does. *)

Empty == [k \in Keys |-> Undef]
\* An array: its elements, its length, and push.
Array(elems) ==
    [k \in Keys |->
        IF k = "length" THEN Prim(Len(elems))
        ELSE IF k = "push" THEN Fn
        ELSE IF \E i \in 1..Len(elems) : k = Index(i - 1)
             THEN elems[CHOOSE i \in 1..Len(elems) : k = Index(i - 1)]
        ELSE Undef]
\* createStore({ count: 0, user: { name: 1 } }), createStore({ items: [1] })
InitHeap ==
    [r \in Refs |->
        IF scn \in {"items", "for"}
        THEN IF r = Root THEN [Empty EXCEPT !["items"] = Obj(2)]
             ELSE IF r = 2 THEN Array(<<Prim(1)>>)
             ELSE Empty
        ELSE IF r = Root THEN [Empty EXCEPT !["count"] = Prim(0), !["user"] = Obj(2)]
        ELSE IF r = 2 THEN [Empty EXCEPT !["name"] = Prim(1)]
        ELSE Empty]
\* createSignal(0) for a and b, createSignal(1) for c; in the scenario of the
\* mutually dependent effects createSignal(1) for a and createSignal(2) for b
InitData ==
    [s \in AllSigs |->
        IF scn = "cycle" /\ s = A THEN Prim(1)
        ELSE IF scn = "cycle" /\ s = B THEN Prim(2)
        ELSE IF s \in {A, B} THEN Prim(0)
        ELSE IF s = C THEN Prim(1)
        ELSE Undef]

\* const placeholder = document.createComment(...): the comment node that
\* marks the place of the list among the children of the parent element
Placeholder == 0

\* The document that a Zust instance scans: a component, a component nested
\* in it, an element whose state attribute evaluates to a number, and an
\* element whose state attribute is empty, in document order.
\*   <div z-state="{ count: 0 }"> <div z-state="{ n: 1 }"></div> </div>
\*   <div z-state="5"></div> <div z-state=""></div>
Body == "body"
Document == <<"outer", "inner", "number", "empty">>
stateAttr(el) ==
    IF el \in {"outer", "inner"} THEN "object" ELSE IF el = "number" THEN "primitive" ELSE ""
parentElement(el) == IF el = "inner" THEN "outer" ELSE Body

\* new Zust(): no component is registered.  Besides `components` the record
\* counts, per element, the calls of createStore that returned, the contexts
\* built, the calls of processDirectives and the visits of a scan; `engines`
\* counts the calls of initialize(), `pending` holds the elements the scan
\* in progress has still to visit.
NoComponents ==
    [components |-> {},
     stores |-> [el \in Members(Document) |-> 0],
     contexts |-> [el \in Members(Document) |-> 0],
     processed |-> [el \in Members(Document) |-> 0],
     visits |-> [el \in Members(Document) |-> 0],
     engines |-> 0,
     pending |-> <<>>]

\* let aRuns = 0, bRuns = 0; for z-for, renderedItems = [] and the placeholder
\* alone in the document; for z-if, the directive before its effect is
\* created: the template is out of the document, nothing is rendered.
InitLocals ==
    IF scn = "if" THEN [shown |-> FALSE, rendered |-> 0, dom |-> <<>>]
    ELSE IF scn = "for" THEN [renderedItems |-> <<>>, dom |-> <<Placeholder>>]
    ELSE IF scn = "scan" THEN NoComponents
    ELSE [c \in Comps |-> 0]

\* The engine and the store as constructed, before the script's first call.
Constructed ==
    /\ created = 0
    /\ stack = <<>>
    /\ context = <<>>
    /\ isBatching = FALSE
    /\ batchedEffects = <<>>
    /\ data = InitData
    /\ subscriptions = [s \in AllSigs |-> <<>>]
    /\ dependencies = [c \in Comps |-> {}]
    /\ signals = <<>>
    /\ heap = InitHeap
    /\ op = Op("init", <<>>, Undef, NoComp)
    /\ last = Op("init", <<>>, Undef, NoComp)
    /\ runs = Zero
    /\ calls = 0
    /\ seen = [c \in Comps |-> [s \in AllSigs |-> NoVal]]
    /\ seen0 = [c \in Comps |-> [s \in AllSigs |-> NoVal]]
    /\ data0 = InitData
    /\ signals0 = <<>>
    /\ heap0 = InitHeap
    /\ threw = FALSE
    /\ lp = [at |-> <<>>, did |-> <<>>]
    /\ inst = First
    /\ locals = InitLocals
    /\ other = [context |-> <<>>, isBatching |-> FALSE, batchedEffects |-> <<>>]
    /\ uw = NoWrites
    /\ nested = 0
    /\ cw = {}

Init == scn \in Scenarios /\ opn = 0 /\ Constructed

-----------------------------------------------------------------------------
(* The script *)

\* createEffect(callback): the first run starts at once.
createEffect ==
    /\ TopLevel
    /\ created < Len(Prog(scn))
    /\ Prog(scn)[created + 1].kind = "effect"
    /\ created' = created + 1
    /\ Begin(Op("create", <<>>, Undef, created + 1))
    /\ execute(created + 1, stack, Zero)
    /\ calls' = 0
    /\ uw' = NoWrites
    /\ cw' = {}
    /\ UNCHANGED <<scn, locals, inst, other, isBatching, batchedEffects, data, signals, heap, opn>>

\* createMemo(fn): fn() is called for the signal's first value.
createMemo ==
    /\ TopLevel
    /\ created < Len(Prog(scn))
    /\ Prog(scn)[created + 1].kind = "memo"
    /\ created' = created + 1
    /\ Begin(Op("create", <<>>, Undef, created + 1))
    /\ stack' = Append(stack, Frame("seed", created + 1, 1, Undef, <<>>))
    /\ runs' = Zero
    /\ calls' = 0
    /\ uw' = NoWrites
    /\ cw' = {}
    /\ UNCHANGED <<scn, locals, inst, other, engine, opn, seen>>

\* set(v) of a plain signal, at top level or in the function of a batch.
write(s, v) ==
    /\ UserTurn
    /\ SetupDone
    /\ opn < MaxOps
    /\ opn' = opn + 1
    /\ Begin(Op("write", s, v, NoComp))
    /\ data' = [data EXCEPT ![s] = v]
    /\ stack' = Append(stack, Frame("set", NoComp, 1, Undef, Snapshot(s, v)))
    /\ uw' = [UwBase EXCEPT ![s] = @ + 1]
    /\ cw' = CwBase
    /\ runs' = RunsBase
    /\ calls' = CallsBase
    /\ UNCHANGED <<scn, locals, created, inst, other, context, isBatching, batchedEffects, subscriptions,
                   dependencies, signals, heap, seen>>

\* get() of a plain signal by the script.
read(s) ==
    /\ UserTurn
    /\ SetupDone
    /\ opn < MaxOps
    /\ opn' = opn + 1
    /\ Begin(Op("read", s, data[s], NoComp))
    /\ subscriptions' = subscribe({s})
    /\ dependencies' = Registered({s})
    /\ uw' = UwBase
    /\ cw' = CwBase
    /\ runs' = RunsBase
    /\ calls' = CallsBase
    /\ UNCHANGED <<scn, locals, created, inst, other, stack, context, isBatching, batchedEffects, data,
                   signals, heap, seen>>

\* store.p1.p2... by the script: the get traps, outside any computation.
get(path) ==
    /\ UserTurn
    /\ SetupDone
    /\ opn < MaxOps
    /\ opn' = opn + 1
    /\ Begin(Op("get", path, viewRead(path), NoComp))
    /\ LET S == {Prefix(path, i) : i \in Tracked(path)}
       IN  /\ signals' = Materialized(signals, path, 1)
           /\ data' = [s \in AllSigs |->
                          IF s \in S /\ ~Has(signals, s) THEN getNestedValue(s) ELSE data[s]]
           /\ subscriptions' = subscribe(S)
           /\ dependencies' = Registered(S)
           /\ seen' = Observed(S, [s \in S |-> viewRead(s)])
    /\ uw' = UwBase
    /\ cw' = CwBase
    /\ runs' = RunsBase
    /\ calls' = CallsBase
    /\ UNCHANGED <<scn, locals, created, inst, other, stack, context, isBatching, batchedEffects, heap>>

\* Mutant: every batch() call opens its own batch.
ReentrantNever == FALSE
\* batch(fn) is entered: the flag is set unless a batch is already active.
Reentrant == isBatching

batchEnter ==
    /\ UserTurn
    /\ SetupDone
    /\ opn < MaxOps
    /\ opn' = opn + 1
    /\ Begin(Op("batch", <<>>, Undef, NoComp))
    /\ IF Reentrant
       THEN /\ stack' = Append(stack, Frame("inner", NoComp, 0, Undef, <<>>))
            /\ UNCHANGED isBatching
       ELSE /\ stack' = Append(stack, Frame("batch", NoComp, 0, Undef, <<>>))
            /\ isBatching' = TRUE
    /\ uw' = UwBase
    /\ cw' = CwBase
    /\ runs' = RunsBase
    /\ calls' = CallsBase
    /\ UNCHANGED <<scn, locals, created, inst, other, context, batchedEffects, data, subscriptions,
                   dependencies, signals, heap, seen>>

\* The function of a batch returns: an inner batch returns to its caller,
\* the outermost one goes on to execute the queued computations (its frame
\* keeps, as history, the computations queued at this point).
batchFnReturn ==
    /\ InBatchFn
    /\ stack' = IF Top.k = "inner" THEN Rest
                ELSE WithTop([Top EXCEPT !.pc = 1, !.lst = batchedEffects])
    /\ nested' = IF Top.k = "inner" THEN nested + 1 ELSE nested
    /\ UNCHANGED <<scn, locals, created, inst, other, lp, engine, opn, op, last, runs, calls, seen, seen0,
                   data0, signals0, heap0, threw, uw, cw>>

-----------------------------------------------------------------------------
(* The engine's loops *)

hist == <<opn, op, last, seen0, data0, signals0, heap0, threw, uw, nested>>

\* Mutant: the loop of a top-level write walks the signal's own set.
PendingLive(f) == IF Len(stack) = 1 THEN subscriptions[op.s] ELSE f.lst
\* for (const subscription of [...subscriptions]): the loop walks the copy.
Pending(f) == f.lst

\* set's loop over the copied subscribers: execute each, or queue it.
notify ==
    /\ stack # <<>>
    /\ Top.k = "set"
    /\ \/ /\ Top.pc > Len(Pending(Top))
          /\ stack' = Rest
          /\ UNCHANGED <<engine, runs, seen, lp>>
       \/ /\ Top.pc <= Len(Pending(Top))
          /\ Deferred
          /\ batchedEffects' = enqueue(Pending(Top)[Top.pc])
          /\ stack' = WithTop([Top EXCEPT !.pc = @ + 1])
          /\ UNCHANGED <<context, isBatching, data, subscriptions, dependencies,
                         signals, heap, runs, seen, lp>>
       \/ /\ Top.pc <= Len(Pending(Top))
          /\ ~Deferred
          /\ execute(Pending(Top)[Top.pc], WithTop([Top EXCEPT !.pc = @ + 1]), runs)
          /\ lp' = IF Len(stack) = 1 THEN [lp EXCEPT !.did = Append(@, Pending(Top)[Top.pc])]
                   ELSE lp
          /\ UNCHANGED <<isBatching, batchedEffects, data, signals, heap>>
    /\ UNCHANGED <<scn, locals, created, inst, other, hist, calls, cw>>

\* batch, after fn(): `for (const effect of batchedEffects) effect()` walks the
\* live set, entries added meanwhile included; then clear(), and the flag is reset.
drain ==
    /\ stack # <<>>
    /\ Top.k = "batch"
    /\ Top.pc >= 1
    /\ \/ /\ Top.pc <= Len(batchedEffects)
          /\ execute(batchedEffects[Top.pc], WithTop([Top EXCEPT !.pc = @ + 1]), runs)
          /\ UNCHANGED <<isBatching, batchedEffects>>
       \/ /\ Top.pc > Len(batchedEffects)
          /\ batchedEffects' = <<>>
          /\ isBatching' = FALSE
          /\ stack' = Rest
          /\ UNCHANGED <<context, subscriptions, dependencies, runs, seen>>
    /\ UNCHANGED <<scn, locals, created, inst, other, lp, data, signals, heap, hist, calls, cw>>

-----------------------------------------------------------------------------
(* One statement of a running body *)

Code(f) == IF f.k = "seed" THEN Prog(scn)[f.c].seed ELSE Prog(scn)[f.c].body
Running == stack # <<>> /\ Top.k \in {"exec", "seed"}
At(o) == Running /\ Top.pc <= Len(Code(Top)) /\ Code(Top)[Top.pc].o = o
Cur == Code(Top)[Top.pc]
Goto(pc, acc) == WithTop([Top EXCEPT !.pc = pc, !.acc = acc])

\* s(): get
stmtRead ==
    /\ At("read") \/ At("add")
    /\ stack' = Goto(Top.pc + 1,
                     IF Cur.o = "add" THEN Prim(Top.acc.v + data[Cur.s].v) ELSE data[Cur.s])
    /\ subscriptions' = subscribe({Cur.s})
    /\ dependencies' = Registered({Cur.s})
    /\ seen' = Observed({Cur.s}, data)
    /\ UNCHANGED <<locals, context, isBatching, batchedEffects, data, signals, heap, runs,
                   calls, cw>>

\* set_s(acc): set, up to its loop
stmtWrite ==
    /\ At("write")
    /\ data' = [data EXCEPT ![Cur.s] = Top.acc]
    /\ stack' = Append(Goto(Top.pc + 1, Top.acc),
                       Frame("set", NoComp, 1, Undef, Snapshot(Cur.s, Top.acc)))
    /\ cw' = cw \cup {Cur.s}
    /\ UNCHANGED <<locals, context, isBatching, batchedEffects, subscriptions, dependencies,
                   signals, heap, runs, calls, seen>>

stmtJump ==
    /\ \/ At("jz") /\ stack' = Goto(IF Truthy(Top.acc) THEN Top.pc + 1 ELSE Top.pc + Cur.k, Top.acc)
       \/ At("ret") /\ stack' = Goto(Len(Code(Top)) + 1, Top.acc)
    /\ UNCHANGED <<locals, engine, runs, calls, seen, cw>>

\* aRuns++, the test of the safety limit, a() + 1
stmtCount ==
    /\ \/ /\ At("incr")
          /\ locals' = [locals EXCEPT ![Top.c] = @ + 1]
          /\ stack' = Goto(Top.pc + 1, Top.acc)
       \/ /\ At("stop")
          /\ stack' = Goto(IF Stop(Top.acc.v, locals[Top.c]) THEN Len(Code(Top)) + 1
                           ELSE Top.pc + 1, Top.acc)
          /\ UNCHANGED locals
       \/ /\ At("inc")
          /\ stack' = Goto(Top.pc + 1, Prim(Top.acc.v + 1))
          /\ UNCHANGED locals
    /\ UNCHANGED <<engine, runs, calls, seen, cw>>

\* cloneNode(true): a node that is not in the document
Clone == CHOOSE n \in 1..(Len(locals.dom) + 1) : ~Has(locals.dom, n)

\* Mutant: showElement renders whether the element is shown or not.
hiddenAlways(l) == TRUE
\* if (!isCurrentlyShown)
hidden(l) == ~l.shown

\* The z-if effect after its condition: showElement inserts a clone of the
\* template after the placeholder, inside a batch whose function writes no
\* signal; hideElement removes the rendered clone.
stmtIf ==
    /\ At("if")
    /\ locals' =
          IF Truthy(Top.acc)
          THEN IF hidden(locals)
               THEN [shown |-> TRUE, rendered |-> Clone, dom |-> <<Clone>> \o locals.dom]
               ELSE locals
          ELSE IF locals.shown /\ locals.rendered # 0
               THEN [shown |-> FALSE, rendered |-> 0,
                     dom |-> SetDelete(locals.dom, locals.rendered)]
               ELSE locals
    /\ stack' = Goto(Top.pc + 1, Top.acc)
    /\ UNCHANGED <<engine, runs, calls, seen, cw>>

\* Children of the parent element: insertBefore, remove, previousSibling.
Pos(dom, x) == CHOOSE i \in 1..Len(dom) : dom[i] = x
InsertAt(dom, i, x) == SubSeq(dom, 1, i - 1) \o <<x>> \o SubSeq(dom, i, Len(dom))
InsertBefore(dom, x, ref) == InsertAt(dom, Pos(dom, ref), x)
MoveAfter(dom, x, ref) == InsertAt(SetDelete(dom, x), Pos(SetDelete(dom, x), ref) + 1, x)
PreviousSibling(dom, x) == IF Pos(dom, x) = 1 THEN -1 ELSE dom[Pos(dom, x) - 1]
\* templateNode.cloneNode(true): an element that is not in the document
NewElement(dom) == CHOOSE n \in 1..(Len(dom) + 1) : ~Has(dom, n)

\* A Map from key to rendered element, in insertion order: set, has, get, delete.
MapSet(m, k, el) ==
    IF \E i \in 1..Len(m) : m[i].key = k
    THEN [i \in 1..Len(m) |-> IF m[i].key = k THEN [key |-> k, el |-> el] ELSE m[i]]
    ELSE Append(m, [key |-> k, el |-> el])
MapHas(m, k) == \E i \in 1..Len(m) : m[i].key = k
MapGet(m, k) == m[CHOOSE i \in 1..Len(m) : m[i].key = k].el
MapDelete(m, k) == SelectSeq(m, LAMBDA e : e.key # k)
\* new Map(renderedItems.map(item => [item.key, item])): of two items with the
\* same key the Map holds the later one.
RECURSIVE oldItemsByKey(_)
oldItemsByKey(items) ==
    IF items = <<>> THEN <<>>
    ELSE MapSet(oldItemsByKey(SubSeq(items, 1, Len(items) - 1)),
                items[Len(items)].key, items[Len(items)].el)

\* for (let i = 0; i < items.length; i++): an item whose key the Map holds
\* takes over the element (and the key leaves the Map); for any other a new
\* element is inserted before the placeholder.
RECURSIVE renderLoop(_, _, _, _, _)
renderLoop(keys, i, map, new, dom) ==
    IF i > Len(keys) THEN [map |-> map, new |-> new, dom |-> dom]
    ELSE IF MapHas(map, keys[i])
    THEN renderLoop(keys, i + 1, MapDelete(map, keys[i]),
                    Append(new, [key |-> keys[i], el |-> MapGet(map, keys[i])]), dom)
    ELSE renderLoop(keys, i + 1, map,
                    Append(new, [key |-> keys[i], el |-> NewElement(dom)]),
                    InsertBefore(dom, NewElement(dom), Placeholder))

\* for (const oldItem of oldItemsByKey.values()) oldItem.elements.forEach(el => el.remove())
RECURSIVE removeLoop(_, _)
removeLoop(map, dom) ==
    IF map = <<>> THEN dom ELSE removeLoop(Tail(map), SetDelete(dom, Head(map).el))

\* The re-ordering loop: each element of newRenderedItems is moved right
\* after the one before it, the first after the placeholder.
RECURSIVE orderLoop(_, _, _, _)
orderLoop(new, i, lastElement, dom) ==
    IF i > Len(new) THEN dom
    ELSE orderLoop(new, i + 1, new[i].el,
                   IF PreviousSibling(dom, new[i].el) # lastElement
                   THEN MoveAfter(dom, new[i].el, lastElement)
                   ELSE dom)

\* The items of the array obj, as the effect reads them through the view.
ItemsOf(obj) == [i \in 1..heap[obj]["length"].v |-> heap[obj][Index(i - 1)]]

\* The z-for effect after `const items = evaluate(itemsExpr)`: it returns if
\* items is no array; else it reads the length and every item through the
\* view (whose get traps subscribe the effect) and renders, in a batch whose
\* function writes no signal. The key of an item is the item (z-key="item").
stmtFor ==
    /\ At("for")
    /\ IF Top.acc.t # "obj"
       THEN UNCHANGED <<locals, signals, data, subscriptions, dependencies, seen>>
       ELSE LET keys == ItemsOf(Top.acc.v)
                paths == <<Items \o <<"length">>>> \o
                           [i \in 1..Len(keys) |-> Items \o <<Index(i - 1)>>]
                S == Members(paths)
                rendered == renderLoop(keys, 1, oldItemsByKey(locals.renderedItems),
                                       <<>>, locals.dom)
            IN  /\ signals' = signals \o SelectSeq(paths, LAMBDA q : ~Has(signals, q))
                /\ data' = [q \in AllSigs |->
                               IF q \in S /\ ~Has(signals, q) THEN getNestedValue(q)
                               ELSE data[q]]
                /\ subscriptions' = subscribe(S)
                /\ dependencies' = Registered(S)
                /\ seen' = Observed(S, [q \in S |-> getNestedValue(q)])
                /\ locals' = [renderedItems |-> rendered.new,
                              dom |-> orderLoop(rendered.new, 1, Placeholder,
                                                removeLoop(rendered.map, rendered.dom))]
    /\ stack' = Goto(Top.pc + 1, Top.acc)
    /\ UNCHANGED <<context, isBatching, batchedEffects, heap, runs, calls, cw>>

\* The memo's function is entered.
stmtFn ==
    /\ At("fn")
    /\ calls' = calls + 1
    /\ stack' = Goto(Top.pc + 1, Top.acc)
    /\ UNCHANGED <<locals, engine, runs, seen, cw>>

\* createSignal(fn()): the memo's signal
stmtSeed ==
    /\ At("seed")
    /\ data' = [data EXCEPT ![Cur.s] = Top.acc]
    /\ stack' = Goto(Top.pc + 1, Top.acc)
    /\ UNCHANGED <<locals, context, isBatching, batchedEffects, subscriptions, dependencies,
                   signals, heap, runs, calls, seen, cw>>

\* store.p1.p2...: the get trap of the view and of each nested view
stmtGet ==
    /\ At("sget")
    /\ LET path == Cur.s
           S == {Prefix(path, i) : i \in Tracked(path)}
       IN  /\ signals' = Materialized(signals, path, 1)
           /\ data' = [s \in AllSigs |->
                          IF s \in S /\ ~Has(signals, s) THEN getNestedValue(s) ELSE data[s]]
           /\ subscriptions' = subscribe(S)
           /\ dependencies' = Registered(S)
           /\ seen' = Observed(S, [s \in S |-> viewRead(s)])
           /\ stack' = Goto(Top.pc + 1, viewRead(path))
    /\ UNCHANGED <<locals, context, isBatching, batchedEffects, heap, runs, calls, cw>>

\* $parent.p in a body of the child, evaluated under with($store): the has
\* and get traps of the child's store for "$parent", whose value is the
\* parent's view; the get trap of the wrapped parent's view reads the property
\* through the parent's get trap, then tracks the child's path "$parent.p".
\* Each store subscribes the computation running in its own engine.
stmtPget ==
    /\ At("pget")
    /\ LET path == Cur.s
           value == getNestedValue(path)
           pr == runningIn(SigEngine(scn, path))
           cr == runningIn(SigEngine(scn, ParentCount))
           made == {s \in ChildPaths \cup {path} : ~Has(signals, s)}
       IN  /\ signals' = SetAdd(SetAdd(SetAdd(signals, Parent), path), ParentCount)
           /\ data' = [s \in AllSigs |->
                          IF s \in made THEN (IF s = Parent THEN Obj(Root) ELSE value)
                          ELSE data[s]]
           /\ subscriptions' =
                [s \in AllSigs |->
                    IF s = path /\ pr # NoComp THEN SetAdd(subscriptions[s], pr)
                    ELSE IF s \in ChildPaths /\ cr # NoComp THEN SetAdd(subscriptions[s], cr)
                    ELSE subscriptions[s]]
           /\ dependencies' =
                [c \in Comps |->
                    dependencies[c] \cup (IF c = pr THEN {path} ELSE {})
                                    \cup (IF c = cr THEN ChildPaths ELSE {})]
           /\ seen' =
                [c \in Comps |->
                    [s \in AllSigs |->
                        IF (c = pr /\ s = path) \/ (c = cr /\ s = ParentCount) THEN value
                        ELSE seen[c][s]]]
           /\ stack' = Goto(Top.pc + 1, value)
    /\ UNCHANGED <<locals, context, isBatching, batchedEffects, heap, runs, calls, cw>>

\* const path = basePath || 'root'
ownKeysPath(basePath) == IF basePath = <<>> THEN <<"root">> ELSE basePath

\* Reflect.ownKeys(obj)
ownKeys(obj) == {k \in Keys : heap[obj][k] # Undef}

\* Object.keys(store.p1.p2...): the get traps down to the container, then the
\* ownKeys trap of its view, which reads the signal of the container's path,
\* 'root' for the store itself.
stmtKeys ==
    /\ At("keys")
    /\ getNestedValue(Cur.s).t = "obj"
    /\ LET path == Cur.s
           S == {Prefix(path, i) : i \in Tracked(path)} \cup {ownKeysPath(path)}
       IN  /\ signals' = SetAdd(Materialized(signals, path, 1), ownKeysPath(path))
           /\ data' = [s \in AllSigs |->
                          IF s \in S /\ ~Has(signals, s) THEN getNestedValue(s) ELSE data[s]]
           /\ subscriptions' = subscribe(S)
           /\ dependencies' = Registered(S)
           /\ seen' = Observed(S, [s \in S |-> getNestedValue(s)])
           /\ stack' = Goto(Top.pc + 1, Prim(Cardinality(ownKeys(getNestedValue(path).v))))
    /\ UNCHANGED <<locals, context, isBatching, batchedEffects, heap, runs, calls, cw>>

\* The body has returned: execute's finally pops the context.  After the
\* memo's first fn(), createMemo goes on with createEffect(() => set(fn())).
bodyReturn ==
    /\ Running
    /\ Top.pc > Len(Code(Top))
    /\ \/ /\ Top.k = "exec"
          /\ context' = SubSeq(context, 1, Len(context) - 1)
          /\ stack' = Rest
          /\ UNCHANGED <<subscriptions, dependencies, runs, seen>>
       \/ /\ Top.k = "seed"
          /\ execute(Top.c, Rest, runs)
    /\ UNCHANGED <<locals, isBatching, batchedEffects, data, signals, heap, calls, cw>>

step ==
    /\ \/ stmtRead
       \/ stmtWrite
       \/ stmtJump
       \/ stmtCount
       \/ stmtIf
       \/ stmtFor
       \/ stmtFn
       \/ stmtSeed
       \/ stmtGet
       \/ stmtPget
       \/ stmtKeys
       \/ bodyReturn
    /\ UNCHANGED <<scn, created, inst, other, lp, hist>>

-----------------------------------------------------------------------------
(* Errors: a thrown error is a frame on top of the stack, which takes the  *)
(* frames below it away one by one until it reaches the script.            *)

Thrown == Frame("throw", NoComp, 0, Undef, <<>>)

\* throw new Error() in the body of a computation
raise ==
    /\ At("throw")
    /\ stack' = Append(stack, Thrown)
    /\ UNCHANGED <<scn, locals, created, inst, other, lp, engine, hist, runs, calls, seen, cw>>

\* throw new Error() in the function of a batch
batchThrow ==
    /\ InBatchFn
    /\ stack' = Append(stack, Thrown)
    /\ UNCHANGED <<scn, locals, created, inst, other, lp, engine, hist, runs, calls, seen, cw>>

\* Mutant: execute has no finally.
finallyNone(f) == context
\* execute: finally { context.pop() }
finallyPop(f) == IF f.k = "exec" THEN SubSeq(context, 1, Len(context) - 1) ELSE context

\* Mutant: batch resets the flag only after the drain.
finallyKeep(f) == isBatching
\* batch: finally { isBatching = false }, in the outermost call
finallyReset(f) == IF f.k = "batch" THEN FALSE ELSE isBatching

\* Mutant: the loop of set catches the error of a subscriber and goes on.
unwindCaught ==
    /\ stack # <<>>
    /\ Top.k = "throw"
    /\ IF Len(stack) = 1
       THEN /\ stack' = <<>>
            /\ threw' = TRUE
            /\ UNCHANGED <<context, isBatching>>
       ELSE /\ stack' = IF stack[Len(stack) - 1].k = "set" THEN Rest
                        ELSE Append(SubSeq(stack, 1, Len(stack) - 2), Top)
            /\ context' = finallyPop(stack[Len(stack) - 1])
            /\ isBatching' = finallyReset(stack[Len(stack) - 1])
            /\ UNCHANGED threw
    /\ UNCHANGED <<scn, locals, created, inst, other, lp, batchedEffects, data, subscriptions, dependencies,
                   signals, heap, opn, op, last, seen0, data0, signals0, heap0, uw,
                   nested, runs, calls, seen, cw>>

\* The error leaves the innermost call: execute pops the context, the
\* outermost batch resets its flag (the queue is not cleared), every other
\* call is left as it is.  With no call left the script catches the error.
unwind ==
    /\ stack # <<>>
    /\ Top.k = "throw"
    /\ IF Len(stack) = 1
       THEN /\ stack' = <<>>
            /\ threw' = TRUE
            /\ UNCHANGED <<context, isBatching>>
       ELSE /\ stack' = Append(SubSeq(stack, 1, Len(stack) - 2), Top)
            /\ context' = finallyPop(stack[Len(stack) - 1])
            /\ isBatching' = finallyReset(stack[Len(stack) - 1])
            /\ UNCHANGED threw
    /\ UNCHANGED <<scn, locals, created, inst, other, lp, batchedEffects, data, subscriptions, dependencies,
                   signals, heap, opn, op, last, seen0, data0, signals0, heap0, uw,
                   nested, runs, calls, seen, cw>>

-----------------------------------------------------------------------------
(* The store: assignment through the view (createReactiveProxy, set) *)

Front(path) == SubSeq(path, 1, Len(path) - 1)

\* Mutant: the set trap does not compare.
sameValueNever(old, v) == FALSE
\* if (oldValue === value) return true
sameValue(old, v) == old = v

\* Mutant: the parent's signal is written with the container itself.
newParentValueSame(pv) == pv
\* [...parentValue] or { ...parentValue }: a new object with the same fields
newParentValue(pv) == Obj(Fresh)

\* store.p1.....pn = v by the script: the chain of get traps up to the
\* container, then the set trap of its view, up to the loop of the first setter.
assign(path, v) ==
    /\ UserTurn
    /\ SetupDone
    /\ opn < MaxOps
    /\ getNestedValue(Front(path)).t = "obj"
    /\ opn' = opn + 1
    /\ LET S == {Prefix(Front(path), i) : i \in Tracked(Front(path))}
           sigs == Materialized(signals, Front(path), 1)
           old == getNestedValue(path)
           obj == getNestedValue(Front(path)).v
           got == [s \in AllSigs |->
                      IF s \in S /\ ~Has(signals, s) THEN getNestedValue(s) ELSE data[s]]
       IN  /\ subscriptions' = subscribe(S)
           /\ dependencies' = Registered(S)
           /\ seen' = Observed(S, [s \in S |-> getNestedValue(s)])
           /\ IF sameValue(old, v)
              THEN /\ Begin(Op("assign", path, v, NoComp))
                   /\ signals' = sigs
                   /\ data' = got
                   /\ uw' = UwBase
                   /\ UNCHANGED <<heap, stack>>
              ELSE /\ Begin(Op("assigned", path, v, NoComp))
                   /\ heap' = [heap EXCEPT ![obj][path[Len(path)]] = v]
                   /\ signals' = SetAdd(sigs, path)
                   /\ data' = [got EXCEPT ![path] = v]
                   /\ uw' = [UwBase EXCEPT ![path] = @ + 1]
                   /\ stack' = stack \o
                        <<Frame("pset", NoComp, Len(path) - 1, Undef, path),
                          Frame("set", NoComp, 1, Undef, Snapshot(path, v))>>
    /\ cw' = CwBase
    /\ runs' = RunsBase
    /\ calls' = CallsBase
    /\ UNCHANGED <<scn, locals, created, inst, other, context, isBatching, batchedEffects>>

\* Mutant: the set trap writes the signal of the path only.
parentLoopNone ==
    /\ stack # <<>>
    /\ Top.k = "pset"
    /\ stack' = Rest
    /\ UNCHANGED <<scn, locals, created, inst, other, lp, engine, hist, runs, calls, seen, cw>>

\* The set trap's loop over the parent paths, longest first: a parent that has
\* a signal is written with a copy of the container.
parentLoop ==
    /\ stack # <<>>
    /\ Top.k = "pset"
    /\ \/ /\ Top.pc = 0
          /\ stack' = Rest
          /\ UNCHANGED <<data, heap>>
       \/ /\ Top.pc > 0
          /\ LET parentPath == Prefix(Top.lst, Top.pc)
                 parentValue == getNestedValue(parentPath)
                 copy == newParentValue(parentValue)
                 next == WithTop([Top EXCEPT !.pc = @ - 1])
             IN  IF Has(signals, parentPath) /\ Truthy(parentValue)
                 THEN /\ heap' = IF copy = parentValue THEN heap
                                 ELSE [heap EXCEPT ![copy.v] =
                                          IF parentValue.t = "obj" THEN heap[parentValue.v]
                                          ELSE Empty]
                      /\ data' = [data EXCEPT ![parentPath] = copy]
                      /\ stack' = Append(next, Frame("set", NoComp, 1, Undef,
                                                     Snapshot(parentPath, copy)))
                 ELSE /\ stack' = next
                      /\ UNCHANGED <<data, heap>>
    /\ UNCHANGED <<scn, locals, created, inst, other, lp, context, isBatching, batchedEffects, subscriptions,
                   dependencies, signals, hist, runs, calls, seen, cw>>

-----------------------------------------------------------------------------
(* The store: store.items.push(v) *)

\* store.items.push(v) by the script: the get traps of 'items' and of
\* 'items.push', then Array.prototype.push on the view of the array: the get
\* trap of 'items.length', the set trap of the next index (up to the loop of
\* its setter; the raw array's length grows with the element), and the set
\* trap of 'length', which finds the length already there and returns.
push(v) ==
    /\ UserTurn
    /\ SetupDone
    /\ opn < MaxOps
    /\ getNestedValue(Items).t = "obj"
    /\ opn' = opn + 1
    /\ LET arr == getNestedValue(Items).v
           n == heap[arr]["length"].v
           path == Items \o <<Index(n)>>
           S == {Items, Items \o <<"push">>, Items \o <<"length">>}
           sigs == SetAdd(SetAdd(SetAdd(signals, Items), Items \o <<"push">>),
                          Items \o <<"length">>)
           got == [s \in AllSigs |->
                      IF s \in S /\ ~Has(signals, s) THEN getNestedValue(s) ELSE data[s]]
       IN  /\ n < MaxLen
           /\ Begin(Op("push", path, v, NoComp))
           /\ subscriptions' = subscribe(S)
           /\ dependencies' = Registered(S)
           /\ seen' = Observed(S, [s \in S |-> getNestedValue(s)])
           /\ heap' = [heap EXCEPT ![arr][Index(n)] = v, ![arr]["length"] = Prim(n + 1)]
           /\ signals' = SetAdd(sigs, path)
           /\ data' = [got EXCEPT ![path] = v]
           /\ uw' = [UwBase EXCEPT ![path] = @ + 1]
           /\ stack' = stack \o
                <<Frame("pset", NoComp, Len(path) - 1, Undef, path),
                  Frame("set", NoComp, 1, Undef, Snapshot(path, v))>>
    /\ cw' = CwBase
    /\ runs' = RunsBase
    /\ calls' = CallsBase
    /\ UNCHANGED <<scn, locals, created, inst, other, context, isBatching, batchedEffects>>

-----------------------------------------------------------------------------
(* The store: setStore(path, value) *)

\* A new object that is none of `taken` either.
FreshBut(taken) ==
    CHOOSE r \in Refs \ (UsedRefs \cup taken) :
        \A q \in Refs \ (UsedRefs \cup taken) : r <= q

\* setNestedValue(initialValue, path, value): the walk from object r along
\* keys; a key on the way that holds no object is given a new empty one.
RECURSIVE setNested(_, _, _, _, _)
setNested(h, r, keys, v, taken) ==
    IF Len(keys) = 1 THEN [h EXCEPT ![r][keys[1]] = v]
    ELSE LET cur == h[r][keys[1]]
             n == FreshBut(taken)
         IN  IF cur.t = "obj" THEN setNested(h, cur.v, Tail(keys), v, taken)
             ELSE setNested([h EXCEPT ![r][keys[1]] = Obj(n), ![n] = Empty],
                            n, Tail(keys), v, taken \cup {n})

setNestedValue(path, v) == setNested(heap, Root, path, v, {})

\* The function of a batch() call made by the engine returns to batch: an
\* inner call is over, the outermost one goes on to the queued computations.
FnReturn(stk) ==
    IF stk[Len(stk)].k = "inner" THEN SubSeq(stk, 1, Len(stk) - 1)
    ELSE [stk EXCEPT ![Len(stk)].pc = 1]

\* Mutant: only the signal of the full path is written.
touchedNever(path, i) == FALSE
\* if (signals.has(currentPath))
touched(path, i) == Has(signals, Prefix(path, i))

\* setStore(path, v) by the script: batch is entered, and its function runs
\* setNestedValue, getSignalForPath(path) and setter(value) up to set's loop.
setStorePath(path, v) ==
    /\ UserTurn
    /\ SetupDone
    /\ opn < MaxOps
    /\ opn' = opn + 1
    /\ Begin(Op("setStore", path, v, NoComp))
    /\ isBatching' = TRUE
    /\ heap' = setNestedValue(path, v)
    /\ signals' = SetAdd(signals, path)
    /\ data' = [data EXCEPT ![path] = v]
    /\ stack' = stack \o
         <<Frame(IF Reentrant THEN "inner" ELSE "batch", NoComp, 0, Undef, <<>>),
           Frame("spath", NoComp, 1, Undef, path),
           Frame("set", NoComp, 1, Undef, Snapshot(path, v))>>
    /\ uw' = [UwBase EXCEPT ![path] = @ + 1]
    /\ cw' = CwBase
    /\ runs' = RunsBase
    /\ calls' = CallsBase
    /\ UNCHANGED <<scn, locals, created, inst, other, context, batchedEffects, subscriptions, dependencies,
                   seen>>

\* setStore's loop over the prefixes of the path, shortest first and the path
\* itself last: a prefix that has a signal is written with the value read
\* again from the raw object.  After the loop the function returns to batch.
pathLoop ==
    /\ stack # <<>>
    /\ Top.k = "spath"
    /\ \/ /\ Top.pc > Len(Top.lst)
          /\ stack' = FnReturn(Rest)
          /\ nested' = IF stack[Len(stack) - 1].k = "inner" THEN nested + 1 ELSE nested
          /\ UNCHANGED <<data, uw>>
       \/ /\ Top.pc <= Len(Top.lst)
          /\ LET currentPath == Prefix(Top.lst, Top.pc)
                 value == getNestedValue(currentPath)
                 next == WithTop([Top EXCEPT !.pc = @ + 1])
             IN  IF touched(Top.lst, Top.pc)
                 THEN /\ data' = [data EXCEPT ![currentPath] = value]
                      /\ uw' = [uw EXCEPT ![currentPath] = @ + 1]
                      /\ stack' = Append(next, Frame("set", NoComp, 1, Undef,
                                                     Snapshot(currentPath, value)))
                 ELSE /\ stack' = next
                      /\ UNCHANGED <<data, uw>>
          /\ UNCHANGED nested
    /\ UNCHANGED <<scn, locals, created, inst, other, lp, context, isBatching, batchedEffects, subscriptions,
                   dependencies, signals, heap, opn, op, last, seen0, data0, signals0,
                   heap0, threw, runs, calls, seen, cw>>

-----------------------------------------------------------------------------
(* The store: setStore(fn) *)

\* What the script's functions return: an object, given by its own keys
\* (NoVal: the key is not in the object).
Absent == [k \in Keys |-> NoVal]
\* prev => prev
UpdPrev == [k \in Keys |-> IF heap[Root][k] = Undef THEN NoVal ELSE heap[Root][k]]
\* prev => ({ count: v })
UpdCount(v) == [Absent EXCEPT !["count"] = v]

\* Mutant: the result replaces the raw object's fields.
mergeReplace(res) ==
    [heap EXCEPT ![Root] = [k \in Keys |-> IF res[k] # NoVal THEN res[k] ELSE Undef]]
\* Object.assign(initialValue, newValue)
merge(res) ==
    [heap EXCEPT ![Root] = [k \in Keys |-> IF res[k] # NoVal THEN res[k] ELSE heap[Root][k]]]

\* Mutant: only the signals whose value is not the raw one are written.
EntriesChanged == SelectSeq(signals, LAMBDA s : data[s] # getNestedValue(s))
\* for (const [path] of signals)
Entries == signals

\* setStore(fn) by the script: batch is entered, and its function calls fn
\* and merges the result.
setStoreFn(res) ==
    /\ UserTurn
    /\ SetupDone
    /\ opn < MaxOps
    /\ opn' = opn + 1
    /\ Begin(Op("setStoreFn", <<>>, res, NoComp))
    /\ isBatching' = TRUE
    /\ heap' = merge(res)
    /\ stack' = stack \o
         <<Frame(IF Reentrant THEN "inner" ELSE "batch", NoComp, 0, Undef, <<>>),
           Frame("sfn", NoComp, 1, Undef, <<>>)>>
    /\ uw' = UwBase
    /\ cw' = CwBase
    /\ runs' = RunsBase
    /\ calls' = CallsBase
    /\ UNCHANGED <<scn, locals, created, inst, other, context, batchedEffects, data, subscriptions,
                   dependencies, signals, seen>>

\* setStore's loop over the signals of the store: each is written with the
\* value read again from the raw object.  After the loop the function
\* returns to batch.
fnLoop ==
    /\ stack # <<>>
    /\ Top.k = "sfn"
    /\ \/ /\ Top.pc > Len(Entries)
          /\ stack' = FnReturn(Rest)
          /\ nested' = IF stack[Len(stack) - 1].k = "inner" THEN nested + 1 ELSE nested
          /\ UNCHANGED <<data, uw>>
       \/ /\ Top.pc <= Len(Entries)
          /\ LET path == Entries[Top.pc]
                 value == getNestedValue(path)
             IN  /\ data' = [data EXCEPT ![path] = value]
                 /\ uw' = [uw EXCEPT ![path] = @ + 1]
                 /\ stack' = Append(WithTop([Top EXCEPT !.pc = @ + 1]),
                                    Frame("set", NoComp, 1, Undef, Snapshot(path, value)))
          /\ UNCHANGED nested
    /\ UNCHANGED <<scn, locals, created, inst, other, lp, context, isBatching, batchedEffects, subscriptions,
                   dependencies, signals, heap, opn, op, last, seen0, data0, signals0,
                   heap0, threw, runs, calls, seen, cw>>

-----------------------------------------------------------------------------

Values == {Prim(n) : n \in 0..MaxVal}
\* The results of the functions the script gives to setStore.
Updates == {UpdPrev} \cup {UpdCount(v) : v \in Values}

Next ==
    \/ createEffect
    \/ createMemo
    \/ \E s \in Writable(scn), v \in Values : write(s, v)
    \/ \E s \in Readable(scn) : read(s)
    \/ batchEnter
    \/ batchFnReturn
    \/ \E p \in Assignable(scn), v \in Values : assign(p, v)
    \/ notify
    \/ drain
    \/ step
    \/ parentLoop

Spec == Init /\ [][Next]_vars

-----------------------------------------------------------------------------
(* The store under all of its setters *)

StoreScenarios == {"store", "items"}

\* The script has StoreOps operations left.
InitStore == scn \in StoreScenarios /\ opn = MaxOps - StoreOps /\ Constructed

NextStore ==
    \/ createEffect
    \/ batchEnter
    \/ batchFnReturn
    \/ \E p \in Assignable(scn), v \in Values : assign(p, v)
    \/ \E p \in Settable(scn), v \in Values : setStorePath(p, v)
    \/ \E res \in Updates : setStoreFn(res)
    \/ \E v \in Values : push(v)
    \/ \E p \in Gettable(scn) : get(p)
    \/ notify
    \/ drain
    \/ step
    \/ parentLoop
    \/ pathLoop
    \/ fnLoop

SpecStore == InitStore /\ [][NextStore]_vars

-----------------------------------------------------------------------------
(* Two engines.  The functions of an engine close over its own context,    *)
(* isBatching and batchedEffects: a call of a function of the engine that  *)
(* is not the current one makes that engine the current one first.         *)

\* The engine of the function the top frame calls next: get or set of a
\* signal in a body is of the signal's engine, every other step of the
\* frame's own.
Needed ==
    IF At("read") \/ At("add") \/ At("write") THEN SigEngine(scn, Cur.s) ELSE Top.e

swap ==
    /\ UserTurn \/ (~UserTurn /\ Needed # inst)
    /\ inst' = IF inst = First THEN Second ELSE First
    /\ context' = other.context
    /\ isBatching' = other.isBatching
    /\ batchedEffects' = other.batchedEffects
    /\ other' = [context |-> context, isBatching |-> isBatching,
                 batchedEffects |-> batchedEffects]
    /\ UNCHANGED <<scn, locals, created, stack, data, subscriptions, dependencies, signals,
                   heap, hist, lp, runs, calls, seen, cw>>

InitTwo == scn = "two" /\ opn = 0 /\ Constructed

NextTwo ==
    \/ inst = CompEngine(scn, created + 1) /\ createEffect
    \/ \E s \in Writable(scn), v \in Values : inst = SigEngine(scn, s) /\ write(s, v)
    \/ batchEnter
    \/ InBatchFn /\ Top.e = inst /\ batchFnReturn
    \/ stack # <<>> /\ Needed = inst /\ notify
    \/ stack # <<>> /\ Needed = inst /\ drain
    \/ stack # <<>> /\ Needed = inst /\ step
    \/ swap

SpecTwo == InitTwo /\ [][NextTwo]_vars

-----------------------------------------------------------------------------
(* Two effects that write the signal the other reads *)

InitCycle == scn = "cycle" /\ opn = 0 /\ Constructed

NextCycle ==
    \/ createEffect
    \/ \E s \in Writable(scn), v \in Values : write(s, v)
    \/ notify
    \/ step

SpecCycle == InitCycle /\ [][NextCycle]_vars

\* A call of the engine that has begun goes on, and the script goes on to
\* create its effects: the execution is synchronous and single-threaded.
FairCycle == WF_vars(createEffect \/ notify \/ step)
SpecCycleFair == SpecCycle /\ FairCycle

-----------------------------------------------------------------------------
(* The z-if directive over a property of the component's store *)

InitIf == scn = "if" /\ opn = 0 /\ Constructed

NextIf ==
    \/ createEffect
    \/ batchEnter
    \/ batchFnReturn
    \/ \E p \in Assignable(scn), v \in Values : assign(p, v)
    \/ notify
    \/ drain
    \/ step
    \/ parentLoop

SpecIf == InitIf /\ [][NextIf]_vars

-----------------------------------------------------------------------------
(* The z-for directive over an array of the component's store *)

\* store.items = [] or [v] by the script: the set trap of the root view, for a
\* new array.
replace(elems) ==
    /\ UserTurn
    /\ SetupDone
    /\ opn < MaxOps
    /\ opn' = opn + 1
    /\ Begin(Op("replace", Items, Obj(Fresh), NoComp))
    /\ heap' = [heap EXCEPT ![Fresh] = Array(elems), ![Root]["items"] = Obj(Fresh)]
    /\ signals' = SetAdd(signals, Items)
    /\ data' = [data EXCEPT ![Items] = Obj(Fresh)]
    /\ uw' = [UwBase EXCEPT ![Items] = @ + 1]
    /\ stack' = Append(stack, Frame("set", NoComp, 1, Undef, Snapshot(Items, Obj(Fresh))))
    /\ cw' = CwBase
    /\ runs' = RunsBase
    /\ calls' = CallsBase
    /\ UNCHANGED <<scn, locals, created, inst, other, context, isBatching, batchedEffects,
                   subscriptions, dependencies, seen>>

\* The arrays the script assigns: [] and [v]
Arrays == {<<>>} \cup {<<v>> : v \in Values}

InitFor == scn = "for" /\ opn = 0 /\ Constructed

NextFor ==
    \/ createEffect
    \/ batchEnter
    \/ batchFnReturn
    \/ \E v \in Values : push(v)
    \/ \E elems \in Arrays : replace(elems)
    \/ notify
    \/ drain
    \/ step
    \/ parentLoop

SpecFor == InitFor /\ [][NextFor]_vars

-----------------------------------------------------------------------------
(* A component nested in another: the child's directives use the engine of *)
(* the parent, and reach the parent's store as $parent.                    *)

Count == <<"count">>

\* $parent.count = v by the child's script: "$parent" is read through the has
\* and get traps of the child's store; the set trap of the wrapped parent's
\* view compares, assigns through the parent's view (whose set trap writes the
\* raw object and sets the signal of "count"), and goes on to the child
\* store's own signals.
childAssign(v) ==
    /\ UserTurn
    /\ SetupDone
    /\ opn < MaxOps
    /\ opn' = opn + 1
    /\ LET old == getNestedValue(Count)
           got == [s \in AllSigs |->
                      IF Has(signals, s) THEN data[s]
                      ELSE IF s = Parent THEN Obj(Root)
                      ELSE IF s = Count THEN old
                      ELSE data[s]]
       IN  /\ signals' = SetAdd(SetAdd(signals, Parent), Count)
           /\ IF sameValue(old, v)
              THEN /\ Begin(Op("cassign", Count, v, NoComp))
                   /\ data' = got
                   /\ uw' = UwBase
                   /\ UNCHANGED <<heap, stack>>
              ELSE /\ Begin(Op("cassigned", Count, v, NoComp))
                   /\ heap' = [heap EXCEPT ![Root]["count"] = v]
                   /\ data' = [got EXCEPT ![Count] = v]
                   /\ uw' = [UwBase EXCEPT ![Count] = @ + 1]
                   /\ stack' = stack \o
                        <<Frame("cset", NoComp, 2, v, Count),
                          [Frame("set", NoComp, 1, Undef, Snapshot(Count, v))
                              EXCEPT !.e = SigEngine(scn, Count)]>>
    /\ cw' = CwBase
    /\ runs' = RunsBase
    /\ calls' = CallsBase
    /\ UNCHANGED <<scn, locals, created, inst, other, context, isBatching, batchedEffects,
                   subscriptions, dependencies, seen>>

\* The rest of the child store's set trap, once the parent's has returned: the
\* signal of "$parent.count" is set, then the signal of "$parent" with a copy
\* of the parent's view, { ...parentValue }, whose making goes through the
\* ownKeys trap and the get traps of the parent's view.
childLoop ==
    /\ stack # <<>>
    /\ Top.k = "cset"
    /\ \/ /\ Top.pc = 2
          /\ signals' = SetAdd(signals, ParentCount)
          /\ data' = [data EXCEPT ![ParentCount] = Top.acc]
          /\ stack' = Append(WithTop([Top EXCEPT !.pc = 1]),
                             Frame("set", NoComp, 1, Undef, Snapshot(ParentCount, Top.acc)))
          /\ UNCHANGED heap
       \/ /\ Top.pc = 1
          /\ LET copy == newParentValue(Obj(Root))
                 fresh == <<"root">> :> Undef @@ Count :> getNestedValue(Count)
                                    @@ <<"user">> :> getNestedValue(<<"user">>)
             IN  /\ signals' = SetAdd(SetAdd(SetAdd(signals, <<"root">>), Count), <<"user">>)
                 /\ heap' = IF copy = Obj(Root) THEN heap
                            ELSE [heap EXCEPT ![copy.v] = heap[Root]]
                 /\ data' = [s \in AllSigs |->
                                IF s = Parent THEN copy
                                ELSE IF s \in DOMAIN fresh /\ ~Has(signals, s) THEN fresh[s]
                                ELSE data[s]]
                 /\ stack' = Append(WithTop([Top EXCEPT !.pc = 0]),
                                    Frame("set", NoComp, 1, Undef, Snapshot(Parent, copy)))
       \/ /\ Top.pc = 0
          /\ stack' = Rest
          /\ UNCHANGED <<signals, data, heap>>
    /\ UNCHANGED <<scn, locals, created, inst, other, lp, context, isBatching, batchedEffects,
                   subscriptions, dependencies, hist, runs, calls, seen, cw>>

InitChild == scn = "child" /\ opn = 0 /\ Constructed

NextChild ==
    \/ inst = CompEngine(scn, created + 1) /\ createEffect
    \/ \E p \in Assignable(scn), v \in Values : inst = SigEngine(scn, p) /\ assign(p, v)
    \/ \E v \in Values : inst = SigEngine(scn, ParentCount) /\ childAssign(v)
    \/ batchEnter
    \/ InBatchFn /\ Top.e = inst /\ batchFnReturn
    \/ stack # <<>> /\ Needed = inst /\ notify
    \/ stack # <<>> /\ Needed = inst /\ drain
    \/ stack # <<>> /\ Needed = inst /\ step
    \/ stack # <<>> /\ Needed = inst /\ parentLoop
    \/ stack # <<>> /\ Needed = inst /\ childLoop
    \/ swap

SpecChild == InitChild /\ [][NextChild]_vars

-----------------------------------------------------------------------------
(* setStore along a path whose container is replaced by a primitive *)

InitNav == scn = "nav" /\ opn = 0 /\ Constructed

NextNav ==
    \/ createEffect
    \/ \E p \in Settable(scn), v \in Values : setStorePath(p, v)
    \/ notify
    \/ drain
    \/ step
    \/ pathLoop

SpecNav == InitNav /\ [][NextNav]_vars

-----------------------------------------------------------------------------
(* Computations that enumerate the keys of the store *)

InitKeys == scn = "keys" /\ opn = 0 /\ Constructed

NextKeys ==
    \/ createEffect
    \/ batchEnter
    \/ batchFnReturn
    \/ \E p \in Assignable(scn), v \in Values : assign(p, v)
    \/ notify
    \/ drain
    \/ step
    \/ parentLoop

SpecKeys == InitKeys /\ [][NextKeys]_vars

-----------------------------------------------------------------------------
(* Computations and batch functions that throw *)

InitThrow == scn = "throw" /\ opn = 0 /\ Constructed

NextThrow ==
    \/ createEffect
    \/ \E s \in Writable(scn), v \in Values : write(s, v)
    \/ \E s \in Readable(scn) : read(s)
    \/ batchEnter
    \/ batchFnReturn
    \/ batchThrow
    \/ notify
    \/ drain
    \/ step
    \/ raise
    \/ unwind

SpecThrow == InitThrow /\ [][NextThrow]_vars

-----------------------------------------------------------------------------
(* Effects over the properties of an array that the script replaces *)

InitReplace == scn = "items" /\ opn = 0 /\ Constructed

NextReplace ==
    \/ createEffect
    \/ batchEnter
    \/ batchFnReturn
    \/ \E elems \in Arrays : replace(elems)
    \/ notify
    \/ drain
    \/ step

SpecReplace == InitReplace /\ [][NextReplace]_vars

-----------------------------------------------------------------------------
(* The framework's scan of the document for components *)

\* element.hasAttribute('z-state')
isComponent(el) == el # Body
\* scanElement(root): the elements it hands to initializeComponent, the root
\* when it is a component and then the components below it in document order
scanElement(root) ==
    (IF isComponent(root) THEN <<root>> ELSE <<>>)
        \o SelectSeq(Document, LAMBDA el : root = Body \/ parentElement(el) = root)

\* Mutant: initializeComponent does not look the element up.
hasNever(el) == FALSE
\* this.components.has(element)
has(el) == el \in locals.components

\* getParentContext: the nearest ancestor that is a registered component
getParentContext(el) ==
    IF parentElement(el) \in locals.components THEN parentElement(el) ELSE Body

\* start(): scanDocument() scans document.body
start ==
    /\ locals.pending = <<>>
    /\ opn < MaxOps
    /\ opn' = opn + 1
    /\ locals' = [locals EXCEPT !.pending = scanElement(Body)]
    /\ UNCHANGED <<scn, created, stack, engine, op, last, runs, calls, seen, seen0, data0,
                   signals0, heap0, threw, lp, uw, nested, cw, inst, other>>

\* The mutation observer's callback for an element added to the document
observe(node) ==
    /\ locals.pending = <<>>
    /\ opn < MaxOps
    /\ opn' = opn + 1
    /\ locals' = [locals EXCEPT !.pending = scanElement(node)]
    /\ UNCHANGED <<scn, created, stack, engine, op, last, runs, calls, seen, seen0, data0,
                   signals0, heap0, threw, lp, uw, nested, cw, inst, other>>

\* initializeComponent(element) for the next element of the scan.  An element
\* that is registered, or whose state attribute is empty, is left alone.
\* Otherwise the component takes the engine of its parent context or a new
\* one; createStore throws for a state that is not an object (new Proxy),
\* which the catch block logs; else the context is built and registered and
\* the directives are processed.
initializeComponent ==
    /\ locals.pending # <<>>
    /\ LET el == Head(locals.pending)
           seen1 == [locals EXCEPT !.pending = Tail(@), !.visits[el] = @ + 1]
           made == [seen1 EXCEPT
                       !.engines = IF getParentContext(el) = Body THEN @ + 1 ELSE @]
       IN  locals' =
              IF has(el) \/ stateAttr(el) = "" THEN seen1
              ELSE IF stateAttr(el) = "primitive" THEN made
              ELSE [made EXCEPT !.stores[el] = @ + 1,
                                !.contexts[el] = @ + 1,
                                !.components = @ \cup {el},
                                !.processed[el] = @ + 1]
    /\ UNCHANGED <<scn, created, stack, engine, opn, op, last, runs, calls, seen, seen0,
                   data0, signals0, heap0, threw, lp, uw, nested, cw, inst, other>>

InitScan == scn = "scan" /\ opn = 0 /\ Constructed

NextScan ==
    \/ start
    \/ \E node \in Members(Document) : observe(node)
    \/ initializeComponent

SpecScan == InitScan /\ [][NextScan]_vars

-----------------------------------------------------------------------------
(* What the claims speak of *)

\* The top-level operation of kind k has returned.
Returned(k) == TopLevel /\ op.kind = k
\* The outermost batch() call is executing its function.
InOuterFn == stack # <<>> /\ stack[1].k = "batch" /\ stack[1].pc = 0
\* The value a read of s returns: the signal's value, or for a path of the
\* store the value held in the raw object.
Current(s) == IF s \in StorePaths THEN getNestedValue(s) ELSE data[s]
\* The computations whose last run, before the operation, read s.
Readers0(s) == {c \in Comps : seen0[c][s] # NoVal}
\* The computations whose last run read a signal the script wrote in this operation.
Triggered == {c \in Comps : \E s \in AllSigs : uw[s] > 0 /\ c \in Readers0(s)}

\* C1: writes made by the function of one outermost batch() to signals an
\* effect's last run read execute the effect exactly once, not before the
\* function has returned, and that run reads the final values (of the signals
\* no computation wrote during the drain); queued several times, run once.
C1_BatchRunsOnce ==
    /\ InOuterFn => runs = Zero
    /\ Returned("batch") =>
         \A c \in Triggered :
            /\ runs[c] = 1
            /\ \A s \in AllSigs \ cw : seen[c][s] # NoVal => seen[c][s] = Current(s)

C1_Witness ==
    /\ Returned("batch")
    /\ uw[A] >= 2
    /\ uw[B] >= 1
    /\ \E c \in Readers0(A) \cap Readers0(B) :
          runs[c] = 1 /\ seen[c][A] = data[A] /\ seen[c][B] = data[B]
                      /\ data[A] # data0[A] /\ data[B] # data0[B]

\* C2: an un-batched write executes every computation whose last run read the
\* signal before it returns; when no computation writes a signal in turn, a
\* reader is run exactly once by the write and the others not at all.
C2_WriteRunsReaders ==
    Returned("write") =>
        \A c \in Comps :
            /\ c \in Readers0(op.s) => runs[c] >= 1
            /\ cw = {} => runs[c] = IF c \in Readers0(op.s) THEN 1 ELSE 0

C2_Witness ==
    /\ Returned("write")
    /\ opn = 2
    /\ op.s = B
    /\ cw = {}
    /\ \E c \in Readers0(A) \cap Readers0(B) : runs[c] = 1 /\ data[A] # Prim(0)

\* C3: while the outermost batch() executes its function, also after an inner
\* batch() has returned, no computation has run and the flag is set; when the
\* outermost call has returned, an effect written to around an inner batch
\* has run once and read the last value.
C3_NestedBatch ==
    /\ InOuterFn => runs = Zero /\ isBatching /\ context = <<>>
    /\ Returned("batch") /\ nested > 0 =>
         /\ ~isBatching
         /\ \A c \in Triggered :
               runs[c] = 1 /\ \A s \in AllSigs \ cw : uw[s] > 0 /\ seen[c][s] # NoVal => seen[c][s] = Current(s)

C3_Witness ==
    /\ Returned("batch")
    /\ nested = 1
    /\ uw[A] = 3
    /\ last.kind = "write"
    /\ \E c \in Readers0(A) : runs[c] = 1 /\ seen[c][A] = last.v /\ last.v # data0[A]

C5_NoEqualityCheck ==
    Returned("write") /\ op.v = data0[op.s] =>
        \A c \in Readers0(op.s) : runs[c] >= 1 /\ (cw = {} => runs[c] = 1)

C5_Witness ==
    /\ Returned("write")
    /\ op.v = data0[op.s]
    /\ cw = {}
    /\ \E c \in Readers0(op.s) : runs[c] = 1

\* C6: a computation that is not running is subscribed to exactly the signals
\* its last run read, and an un-batched write to a signal its last run did
\* not read does not run it (when no computation writes in turn).
Subscribed(c) == {s \in AllSigs : Has(subscriptions[s], c)}
ReadSet(c) == {s \in AllSigs : seen[c][s] # NoVal}

C6_DependencyRediscovery ==
    /\ \A c \in Comps : ~Has(context, c) =>
          Subscribed(c) = ReadSet(c) /\ dependencies[c] = ReadSet(c)
    /\ Returned("write") /\ cw = {} =>
          \A c \in Comps \ Readers0(op.s) : runs[c] = 0

\* The effect c() ? a() : b() has switched from a to b, and a was written since.
C6_Witness ==
    /\ scn = "cond"
    /\ Returned("write")
    /\ op.s = A
    /\ ReadSet(1) = {C, B}
    /\ Subscribed(1) = {C, B}
    /\ seen0[1][A] = NoVal
    /\ runs[1] = 0

C8_MemoCurrent ==
    scn = "memo" /\ TopLevel /\ created >= 1 =>
        /\ data[M] = Prim(data[A].v + data[B].v)
        /\ op.kind = "read" => op.v = Prim(data[A].v + data[B].v)

C8_Witness ==
    /\ scn = "memo"
    /\ Returned("read")
    /\ op.s = M
    /\ op.v = Prim(2)
    /\ data[A] = Prim(1)
    /\ data[B] = Prim(1)

\* C9: when an assignment of a changed value through the view has returned
\* (or the batch it was made in), every effect that read the property has
\* re-run and read the value the property holds, and so has every effect
\* that read an ancestor container; each ancestor path's signal holds a new
\* reference to a copy of the container.
Ancestors(p) == {Prefix(p, i) : i \in 1..(Len(p) - 1)}

C9_DeepWrite ==
    Returned("assigned") \/ Returned("batch") =>
        \A p \in StorePaths : uw[p] > 0 =>
            /\ \A c \in Readers0(p) : runs[c] >= 1 /\ seen[c][p] = getNestedValue(p)
            /\ \A a \in Ancestors(p) :
                  /\ \A c \in Readers0(a) : runs[c] >= 1
                  /\ Has(signals, a) =>
                        /\ data[a].t = "obj"
                        /\ data[a] # getNestedValue(a)
                        /\ data[a] # data0[a]
                        /\ heap[data[a].v] = heap[getNestedValue(a).v]

C9_Witness ==
    /\ Returned("assigned")
    /\ op.s = <<"user", "name">>
    /\ 1 \in Readers0(<<"user", "name">>)
    /\ 2 \in Readers0(<<"user">>) \ Readers0(<<"user", "name">>)
    /\ runs[2] = 1
    /\ seen[1][op.s] = op.v
    /\ op.v = getNestedValue(op.s)
    /\ data[<<"user">>] # data0[<<"user">>]
    /\ data0[<<"user">>].t = "obj"

\* C10: an assignment through the view of the value the property holds changes
\* neither the raw object nor the value of any signal, queues and runs nothing.
C10_NoOpAssign ==
    [][opn' # opn /\ last'.kind \in {"assign", "assigned"}
          /\ getNestedValue(last'.s) = last'.v =>
            /\ heap' = heap
            /\ stack' = stack
            /\ batchedEffects' = batchedEffects
            /\ runs' = RunsBase
            /\ \A s \in Members(signals) : data'[s] = data[s]]_vars

\* store.user.name = 0 when it holds 0 already, and an effect has read it.
C10_Witness ==
    /\ Returned("assign")
    /\ op.s = <<"user", "name">>
    /\ op.v = Prim(0)
    /\ getNestedValue(op.s) = Prim(0)
    /\ 1 \in Readers0(op.s)
    /\ runs = Zero

\* The computations whose last run, before the operation, read the path or
\* one of its prefixes through the view.
PathReaders0(path) ==
    {c \in Comps : \E i \in 1..Len(path) : seen0[c][Prefix(path, i)] # NoVal}

\* C11: setStore(path, v), not nested in another batch, writes the signal of
\* the path and of every prefix that had a signal when it was called, and has
\* run every computation that read the path or a prefix exactly once when it
\* returns.
C11_PathSetterAncestors ==
    Returned("setStore") =>
        /\ uw[op.s] >= 1
        /\ data[op.s] = op.v
        /\ \A i \in 1..Len(op.s) :
              Has(signals0, Prefix(op.s, i)) =>
                 /\ uw[Prefix(op.s, i)] >= 1
                 /\ data[Prefix(op.s, i)] = getNestedValue(Prefix(op.s, i))
        /\ \A c \in PathReaders0(op.s) : runs[c] = 1

C11_Witness ==
    /\ Returned("setStore")
    /\ op.s = <<"user", "name">>
    /\ Readers0(<<"user", "name">>) = {1}
    /\ Readers0(<<"user">>) = {1, 2}
    /\ runs[1] = 1
    /\ runs[2] = 1

\* The value the raw object held at the path when the operation began.
RECURSIVE Walk0(_, _)
Walk0(cur, path) ==
    IF path = <<>> THEN cur
    ELSE IF cur.t = "obj" THEN Walk0(heap0[cur.v][Head(path)], Tail(path))
    ELSE Undef
Old(path) == Walk0(Obj(Root), path)
\* The computations whose last run, before the operation, read a path of the store.
StoreReaders0 == {c \in Comps : \E s \in Members(signals0) : seen0[c][s] # NoVal}
\* A top-level setStore(fn) is between the merge and the return of its function.
InFnLoop == Len(stack) >= 2 /\ stack[1].k = "batch" /\ stack[2].k = "sfn"

\* C12: the setters of the store compare nothing: setStore(path, v) with the
\* value the path holds runs the computations that read the path or a prefix,
\* and setStore(fn) that leaves the raw object as it was runs the computations
\* that read a path of the store.
C12_SetterNoEqualityCheck ==
    /\ Returned("setStore") /\ Old(op.s) = op.v =>
          \A c \in PathReaders0(op.s) : runs[c] >= 1
    /\ Returned("setStoreFn") /\ heap = heap0 =>
          \A c \in StoreReaders0 : runs[c] >= 1

C12_Witness ==
    /\ Returned("setStoreFn")
    /\ heap = heap0
    /\ \A s \in Members(signals0) : data0[s] = getNestedValue(s)
    /\ StoreReaders0 = {1, 2}
    /\ runs[1] = 1
    /\ runs[2] = 1

\* C13: setStore(fn) gives the raw object the keys of fn's result and leaves
\* its other keys as they were, then writes every signal the store had, once,
\* with the value read again from the raw object; no computation runs before
\* the last of these writes, and when the call returns every computation that
\* read a path of the store has run exactly once and read the raw values.
C13_FunctionForm ==
    /\ InFnLoop => runs = Zero
    /\ Returned("setStoreFn") =>
          /\ \A k \in Keys :
                heap[Root][k] = IF op.v[k] # NoVal THEN op.v[k] ELSE heap0[Root][k]
          /\ \A s \in Members(signals0) : uw[s] = 1 /\ data[s] = getNestedValue(s)
          /\ \A c \in StoreReaders0 :
                /\ runs[c] = 1
                /\ \A s \in StorePaths : seen[c][s] # NoVal => seen[c][s] = getNestedValue(s)

C13_Witness ==
    /\ Returned("setStoreFn")
    /\ op.v["count"] = Prim(1)
    /\ op.v["user"] = NoVal
    /\ heap0[Root]["count"] = Prim(0)
    /\ heap[Root]["count"] = Prim(1)
    /\ heap[Root]["user"] = heap0[Root]["user"]
    /\ heap[Root]["user"].t = "obj"
    /\ Len(signals0) >= 2
    /\ runs[1] = 1
    /\ runs[2] = 1

Length == Items \o <<"length">>

\* C14: when store.items.push(v) has returned, every computation whose last
\* run read store.items.length has run again, and its last run read the
\* length one more than it was.
C14_ArrayPush ==
    Returned("push") =>
        \A c \in Readers0(Length) :
            /\ runs[c] >= 1
            /\ seen[c][Length] = Prim(Old(Length).v + 1)

C14_Witness ==
    /\ Returned("push")
    /\ Readers0(Length) = {1}
    /\ Old(Length) = Prim(1)
    /\ runs[1] = 1
    /\ seen[1][Length] = Prim(2)
    /\ getNestedValue(op.s) = op.v

AssignStep == opn' = opn + 1 /\ last'.kind \in {"assign", "assigned"}

\* C16: an assignment through the view creates no signal: the store has the
\* signals it had, but for those of the containers the statement reads on its
\* way to the property (store.user in store.user.name = v).
C16_WriteCreatesNoSignal ==
    [][AssignStep => Members(signals') \subseteq Members(signals) \cup Ancestors(last'.s)]_vars

\* The computations of the calls of execute in progress, outermost first.
RECURSIVE Executing(_)
Executing(stk) ==
    IF stk = <<>> THEN <<>>
    ELSE IF Head(stk).k = "exec" THEN <<Head(stk).c>> \o Executing(Tail(stk))
    ELSE Executing(Tail(stk))

\* C17: the context stack holds the computations whose execute is in
\* progress, each once and in the order of the calls, also while an error
\* thrown by a body is on its way to the script; so it is empty whenever no
\* computation runs, and a read by the script subscribes no computation.
C17_ContextIntegrity ==
    /\ context = Executing(stack)
    /\ TopLevel => context = <<>>
    /\ Returned("read") =>
          \A c \in Comps : Has(subscriptions[op.s], c) => seen[c][op.s] # NoVal

C17_Witness ==
    /\ Returned("write")
    /\ threw
    /\ runs[1] = 1
    /\ seen[1][A] = Prim(1)
    /\ context = <<>>

\* C18: whenever the script is at top level the batch flag is down, also
\* after a batch whose function threw or whose drain met a computation that
\* threw; so an un-batched write that returns has run the readers of the signal.
C18_BatchFlagReset ==
    /\ TopLevel => ~isBatching
    /\ Returned("write") /\ ~threw => \A c \in Readers0(op.s) : runs[c] >= 1

C18_Witness ==
    /\ Returned("write")
    /\ ~threw
    /\ batchedEffects # <<>>
    /\ ~isBatching
    /\ op.s = B
    /\ Readers0(B) = {2}
    /\ runs[2] = 1

\* A top-level write is in its loop.
InWriteLoop == stack # <<>> /\ stack[1].k = "set"

\* C19: the loop of an un-batched write invokes the computations that were
\* subscribed to the signal when set was called, each once and in their
\* order, and no other: at every moment what it has invoked is the part of
\* that list it has gone through, and at the return all of it.
C19_SnapshotNotification ==
    /\ InWriteLoop => lp.did = SubSeq(lp.at, 1, stack[1].pc - 1)
    /\ Returned("write") => lp.did = lp.at

C19_Witness ==
    /\ Returned("write")
    /\ op.s = A
    /\ lp.at = <<1>>
    /\ lp.did = <<1>>
    /\ seen0[2][A] = NoVal
    /\ Has(subscriptions[A], 2)
    /\ runs[2] = 1

\* C20: when an assignment through the view has given a container (the store
\* itself or a nested object) a key it did not have, every computation whose
\* last run enumerated the keys of that container has run again.
C20_KeyEnumeration ==
    Returned("assigned") /\ Old(op.s) = Undef =>
        \A c \in Readers0(ownKeysPath(Front(op.s))) : runs[c] >= 1

\* C21: a setStore(path, v) whose path goes through a key that held a
\* primitive ends with an error thrown to the script.
C21_NavigationError ==
    Returned("setStore") /\ Len(op.s) = 2 /\ Old(Front(op.s)).t = "prim" => threw

\* The state of an engine.
EngineState(e) ==
    IF e = inst
    THEN [context |-> context, isBatching |-> isBatching, batchedEffects |-> batchedEffects]
    ELSE other
\* A batch() of the engine is in progress.
BatchOf(e) == \E i \in 1..Len(stack) : stack[i].k \in {"batch", "inner"} /\ stack[i].e = e

\* C22: of two engines, the context stack and the pending set of each hold
\* computations of that engine only, the batch flag of each is up only
\* during a batch() of that engine, and a write to a signal of the second
\* engine made while only the first engine is in a batch has run the
\* signal's readers when it returns.
C22_EngineIsolation ==
    /\ \A e \in {"X", "Y"} :
          /\ \A c \in Members(EngineState(e).context) \cup Members(EngineState(e).batchedEffects) :
                CompEngine(scn, c) = e
          /\ EngineState(e).isBatching => BatchOf(e)
    /\ UserTurn /\ last.kind = "write" /\ last.s = B /\ ~BatchOf("Y") =>
          \A c \in Readers0(B) : runs[c] >= 1

C22_Witness ==
    /\ InBatchFn
    /\ stack[1].e = "X"
    /\ ~BatchOf("Y")
    /\ EngineState("X").isBatching
    /\ ~EngineState("Y").isBatching
    /\ last.kind = "write"
    /\ last.s = B
    /\ Readers0(B) = {2}
    /\ runs[2] = 1
    /\ EngineState("X").batchedEffects = <<1>>

Quiescent ==
    /\ TopLevel
    /\ created = 2
    /\ context = <<>>
    /\ locals[1] < 20
    /\ locals[2] < 20
    /\ data[A].v >= 1
    /\ data[B].v >= 2
C24_CircularTermination == <>Quiescent

\* The creation has returned with a = 5 and b = 6 after three runs of each
\* effect, the last two of each nested in the first run of the second effect.
C24_Witness ==
    /\ Returned("create")
    /\ created = 2
    /\ locals = [c \in Comps |-> 3]
    /\ data[A] = Prim(5)
    /\ data[B] = Prim(6)

\* C25: whenever the z-if effect is not executing and has run, the clones of
\* the template in the document are exactly one if the condition last
\* evaluated truthy and none if it evaluated falsy, that clone is the one the
\* directive holds as rendered; at no time are there two clones.
IfRunning == \E i \in 1..Len(stack) : stack[i].k = "exec" /\ stack[i].c = 1
C25_IfRendering ==
    /\ Len(locals.dom) <= 1
    /\ created >= 1 /\ ~IfRunning =>
          /\ locals.dom = IF Truthy(seen[1][Count]) THEN <<locals.rendered>> ELSE <<>>
          /\ locals.shown = Truthy(seen[1][Count])
          /\ locals.rendered = 0 <=> ~locals.shown

\* The condition was toggled on, off and on again: a second clone is rendered
\* alone.
C25_Witness ==
    /\ Returned("assigned")
    /\ op.v = Prim(1)
    /\ runs[1] = 1
    /\ opn >= 3
    /\ locals.shown
    /\ locals.dom = <<locals.rendered>>

\* C26: when the script is at top level and the z-for effect has run, the
\* elements in the document are one per item of the array, in the order of
\* the array, each under its item's key, and no other element is left.
Elements == SelectSeq(locals.dom, LAMBDA x : x # Placeholder)
C26_ForRendering ==
    TopLevel /\ created >= 1 =>
        LET items == ItemsOf(getNestedValue(Items).v)
        IN  /\ Len(Elements) = Len(items)
            /\ Len(locals.renderedItems) = Len(items)
            /\ \A i \in 1..Len(items) :
                  i <= Len(Elements) /\ i <= Len(locals.renderedItems) =>
                    /\ locals.renderedItems[i].key = items[i]
                    /\ locals.renderedItems[i].el = Elements[i]

\* C27: the computations the loop of an outermost batch() has executed were
\* all queued when the function of the batch returned.
C27_SinglePassDrain ==
    stack # <<>> /\ stack[1].k = "batch" /\ stack[1].pc >= 1 =>
        \A i \in 1..(stack[1].pc - 1) :
            i <= Len(batchedEffects) => Has(stack[1].lst, batchedEffects[i])

\* C28: when createEffect has returned, the body has run exactly once, and the
\* effect is subscribed to every signal that run read.
C28_FirstRun ==
    Returned("create") =>
        /\ runs[op.c] = 1
        /\ \A s \in AllSigs : seen[op.c][s] # NoVal => Has(subscriptions[s], op.c)

\* C29: while the function of a path-form setStore call runs, no computation
\* executes; and whenever a computation executes in the call, and when the
\* call has returned, the signal of every materialized prefix of the path
\* (the path included) holds the value the raw object holds there, and every
\* computation the call has re-run has read that value at every prefix it read.
InPathLoop(i) == stack[i].k = "spath"
PathPrefixes == {Prefix(op.s, i) : i \in 1..Len(op.s)}
C29_PathWriteOrder ==
    /\ \A i \in 1..Len(stack) : InPathLoop(i) =>
          \A j \in (i + 1)..Len(stack) : stack[j].k # "exec"
    /\ op.kind = "setStore" /\ (TopLevel \/ \E j \in 1..Len(stack) : stack[j].k = "exec") =>
          \A p \in PathPrefixes :
              /\ Has(signals, p) => data[p] = getNestedValue(p)
              /\ \A c \in Comps :
                    TopLevel /\ runs[c] >= 1 /\ seen[c][p] # NoVal =>
                        seen[c][p] = getNestedValue(p)

\* setStore('user.name', v) with a new value has returned: the effect that
\* read user.name and the effect that read user have re-run once each.
C29_Witness ==
    /\ Returned("setStore")
    /\ op.s = <<"user", "name">>
    /\ data0[op.s] # op.v
    /\ Has(signals0, <<"user">>)
    /\ runs = [c \in Comps |-> 1]
    /\ seen[1][op.s] = op.v
    /\ seen[2][<<"user">>] = getNestedValue(<<"user">>)

\* C30: the subscriber set of a signal is kept in the order of registration,
\* a computation standing where its latest run registered it: the first read
\* of a signal in a run puts the computation last in the signal's set and
\* leaves the order of the others, and the start of a run takes the
\* computation out of the sets and leaves the order of the others. An
\* un-batched write by the script goes through the set as it stands when set
\* is called: the k-th computation its loop executes is the k-th of the set.
FirstRead(c, s) == seen[c][s] = NoVal /\ seen'[c][s] # NoVal
C30_RegistrationOrder ==
    [][/\ \A c \in Comps, s \in AllSigs :
             FirstRead(c, s) =>
                 /\ subscriptions'[s] = Append(SetDelete(subscriptions[s], c), c)
                 /\ ~Has(subscriptions[s], c)
       /\ \A s \in AllSigs :
             subscriptions'[s] # subscriptions[s] =>
                 \/ \E c \in Comps : FirstRead(c, s)
                 \/ \E c \in Comps :
                       stack' # <<>> /\ stack'[Len(stack')].k = "exec" /\ stack'[Len(stack')].c = c
                          /\ stack'[Len(stack')].pc = 1
                          /\ subscriptions'[s] = SetDelete(subscriptions[s], c)
       /\ opn' = opn + 1 /\ TopLevel /\ last'.kind = "write" =>
             lp'.at = subscriptions[last'.s] /\ lp'.did = <<>>
       /\ opn' = opn /\ lp'.did # lp.did =>
             /\ Len(lp.did) < Len(lp.at)
             /\ lp'.did = Append(lp.did, lp.at[Len(lp.did) + 1])
             /\ lp'.at = lp.at]_vars

\* a's readers were registered in the order 1, 2; a write of b re-ran the
\* first, which registered again behind the second; a write of a has then
\* executed the second before the first.
C30_Witness ==
    /\ Returned("write")
    /\ op.s = A
    /\ lp.at = <<2, 1>>
    /\ lp.did = <<2, 1>>
    /\ scn = "sum"

-----------------------------------------------------------------------------
\* C31: whenever no batch is active the set of queued computations is
\* empty, also after an outermost batch() that ended with an error thrown
\* by its function or by a computation of its drain; so a batch never
\* executes what an earlier batch queued.
C31_PendingEmpty == ~isBatching => batchedEffects = <<>>

-----------------------------------------------------------------------------
\* The last run of computation c ended with the error its body throws.
Threw(c) == Prog(scn)[c].body = BodyThrow /\ Truthy(seen[c][A])
\* An error is leaving a computation that the loop of a top-level write executed.
LeavingLoop == Len(stack) = 2 /\ stack[1].k = "set" /\ stack[2].k = "throw"

\* C32: when the body of a computation throws in the loop of an un-batched
\* write, the signal holds the new value, the write ends with the error
\* thrown to the script, and the loop has executed the computations of its
\* snapshot up to the one that threw and none of those after it.
C32_ThrowInWriteLoop ==
    /\ LeavingLoop => data[op.s] = op.v /\ Threw(lp.did[Len(lp.did)])
    /\ Returned("write") =>
          /\ threw <=> \E c \in Members(lp.did) : Threw(c)
          /\ threw =>
                /\ data[op.s] = op.v
                /\ lp.did # <<>>
                /\ lp.did = SubSeq(lp.at, 1, Len(lp.did))
                /\ Threw(lp.did[Len(lp.did)])
                /\ \A i \in (Len(lp.did) + 1)..Len(lp.at) : runs[lp.at[i]] = 0

C32_Witness ==
    /\ Returned("write")
    /\ threw
    /\ op.s = A
    /\ data[A] = Prim(1)
    /\ lp.at = <<1, 2>>
    /\ lp.did = <<1>>
    /\ runs = <<1, 0>>

-----------------------------------------------------------------------------
\* C33: whenever no computation is running, a computation is a member of a
\* signal's subscriber set exactly when that set is one of the computation's
\* dependencies.
C33_Bidirectional ==
    context = <<>> =>
        \A c \in Comps, s \in AllSigs : Has(subscriptions[s], c) <=> s \in dependencies[c]

C33_Witness ==
    /\ Returned("write")
    /\ scn = "cond"
    /\ seen0[1][A] # NoVal
    /\ dependencies[1] = {C, B}
    /\ ~Has(subscriptions[A], 1)
    /\ Has(subscriptions[B], 1)
    /\ context = <<>>

-----------------------------------------------------------------------------
\* C34: no computation is on the context stack more than once: execute is
\* not entered for a computation whose body is still running.
C34_NoReentry ==
    \A i, j \in 1..Len(context) : context[i] = context[j] => i = j

-----------------------------------------------------------------------------
\* C35: the loop of an un-batched write by the script executes a computation
\* of its snapshot only if the computation is a subscriber of the written
\* signal at the moment the loop calls its execute.
C35_StillSubscribed ==
    [][opn' = opn /\ lp'.did # lp.did =>
            Has(subscriptions[op.s], lp'.did[Len(lp'.did)])]_vars

-----------------------------------------------------------------------------
\* The paths of a property of a nested object (store.a.b) that the script
\* assigned a changed value in this operation.
Deep == {p \in StorePaths : Len(p) = 2 /\ uw[p] > 0}
\* The ancestors of the path whose signal the computation's last run,
\* before the operation, read.
ReadAncestors0(c, p) == {a \in Ancestors(p) : seen0[c][a] # NoVal}

\* C36: an un-batched assignment store.a.b = v of a changed value executes
\* an effect that read store.a.b through the root view twice, once for the
\* signal of 'a.b' and once for the signal of 'a'; a batch that makes the
\* assignment executes it once.
C36_DeepAssignRuns ==
    /\ Returned("assigned") =>
          \A p \in Deep : \A c \in Readers0(p) :
              /\ ReadAncestors0(c, p) = Ancestors(p)
              /\ runs[c] = 1 + Cardinality(Ancestors(p))
    /\ Returned("batch") =>
          \A p \in Deep : \A c \in Readers0(p) : runs[c] = 1

C36_Witness ==
    /\ Returned("assigned")
    /\ op.s = <<"user", "name">>
    /\ Deep = {op.s}
    /\ 1 \in Readers0(op.s)
    /\ Has(signals0, <<"user">>)
    /\ runs[1] = 2
    /\ seen[1][op.s] = op.v

\* The same assignment made by the function of a batch.
C36_WitnessBatch ==
    /\ Returned("batch")
    /\ <<"user", "name">> \in Deep
    /\ 1 \in Readers0(<<"user", "name">>)
    /\ runs[1] = 1

-----------------------------------------------------------------------------
\* The paths below the container at path a.
Below(a) == {p \in StorePaths : Len(p) > Len(a) /\ Prefix(p, Len(a)) = a}

\* C37: an effect whose last run read a property through the chain of views
\* from the root (store.items.length) is subscribed to the signal of the path
\* and of every prefix of it; an assignment of a new container to a prefix
\* (store.items = newArray) writes no signal below the prefix and has re-run
\* the effect, which has read what the new container holds.
C37_PrefixSubscription ==
    /\ context = <<>> =>
          \A c \in Comps, p \in StorePaths :
              seen[c][p] # NoVal =>
                  \A i \in 1..Len(p) : Has(subscriptions[Prefix(p, i)], c)
    /\ Returned("replace") =>
          /\ \A p \in Below(op.s) : uw[p] = 0 /\ (Has(signals0, p) => data[p] = data0[p])
          /\ cw = {}
          /\ \A p \in Below(op.s) : \A c \in Readers0(p) :
                /\ runs[c] >= 1
                /\ seen[c][p] # NoVal => seen[c][p] = getNestedValue(p)

\* store.items = [] after an effect read store.items.length = 1: the effect
\* has run again and read 0, the signal of 'items.length' still holds 1.
C37_Witness ==
    /\ Returned("replace")
    /\ scn = "items"
    /\ 1 \in Readers0(Items \o <<"length">>)
    /\ runs[1] = 1
    /\ seen0[1][Items \o <<"length">>] = Prim(1)
    /\ seen[1][Items \o <<"length">>] = Prim(0)
    /\ data[Items \o <<"length">>] = Prim(1)
    /\ Has(subscriptions[Items], 1)

-----------------------------------------------------------------------------
\* The function of the outermost batch has written a signal the memo's
\* function reads.
WroteInBatch == InOuterFn /\ (uw[A] > 0 \/ uw[B] > 0)

\* C38: inside a batch a read of the memo, after a write to a signal its
\* function reads, returns the value the memo held before the batch, fn of
\* the values the signals had then; once the outermost batch has returned the
\* memo holds fn of the values the signals hold.
C38_MemoInBatch ==
    scn = "memo" /\ SetupDone =>
        /\ WroteInBatch /\ InBatchFn /\ last.kind = "read" /\ last.s = M =>
              /\ last.v = data0[M]
              /\ last.v = Prim(data0[A].v + data0[B].v)
              /\ calls = 0
        /\ Returned("batch") => data[M] = Prim(data[A].v + data[B].v)

\* batch(() => { setA(1); sum() }): the read returns 0 = 0 + 0 while a is 1.
C38_Witness ==
    /\ scn = "memo"
    /\ WroteInBatch
    /\ InBatchFn
    /\ last.kind = "read"
    /\ last.s = M
    /\ data0[A] = Prim(0)
    /\ data[A] = Prim(1)
    /\ data[B] = Prim(0)
    /\ last.v = Prim(0)
    /\ batchedEffects = <<1>>

\* The batch has returned: the memo holds 1, and its function was called once.
C38_WitnessAfter ==
    /\ scn = "memo"
    /\ Returned("batch")
    /\ last.kind = "read"
    /\ uw[A] > 0
    /\ data0[M] = Prim(0)
    /\ data[M] = Prim(1)
    /\ calls = 1

-----------------------------------------------------------------------------
\* C39: however often start() or the mutation observer's scan visits an
\* element that carries the state attribute, at most one store and one
\* component context are created for it and its directives are processed at
\* most once: exactly once each for an element that is registered, and not
\* at all for one that is not.
C39_InitializedOnce ==
    scn = "scan" =>
        \A el \in Members(Document) :
            /\ locals.stores[el] <= 1
            /\ locals.contexts[el] = locals.stores[el]
            /\ locals.processed[el] = locals.contexts[el]
            /\ el \in locals.components <=> locals.contexts[el] = 1

\* Three scans have visited the outer component and two the nested one.
C39_Witness ==
    /\ scn = "scan"
    /\ locals.pending = <<>>
    /\ locals.visits["outer"] = 3
    /\ locals.visits["inner"] >= 2
    /\ locals.stores["outer"] = 1
    /\ locals.processed["outer"] = 1
    /\ locals.stores["inner"] = 1
    /\ locals.components = {"outer", "inner"}

=============================================================================
